---- MODULE Spec2Model ----
(***************************************************************************)
(* Model of the local-extrema detector (unified_extrema_detector.py) and   *)
(* of the analysis driver that uses it (local_extrema_gui.py).             *)
(*                                                                         *)
(* Numbers.  The program works on floats; the model works on exact         *)
(* integers.  One model unit is 0.05, so the program constant 0.4 is 8.    *)
(* Statistics that the program computes with a square root (np.std) are    *)
(* never materialised: every comparison the code makes against them is     *)
(* rewritten as the equivalent comparison of squares, which is exact.      *)
(* Python indices are 0-based and are kept 0-based in every (index, value) *)
(* entry; At(data, i) reads data[i] of the Python list.                    *)
(***************************************************************************)
EXTENDS Integers, Sequences, FiniteSets, TLC

VARIABLES
    data,               \* LocalExtremaGUI.data / the detector's data argument
    request,            \* the Tk variables read by run_analysis
    selected_maxima,    \* LocalExtremaGUI.selected_maxima: <<idx, x, y>>
    selected_minima,    \* LocalExtremaGUI.selected_minima: <<idx, x, y>>
    results,            \* LocalExtremaGUI.results ({} is [set |-> FALSE])
    difference_results, \* LocalExtremaGUI.difference_results
    data_stats,         \* UnifiedExtremaDetector.data_stats ({} is [set |-> FALSE])
    run,                \* what the last run_analysis did (stages, outcome)
    call,               \* the last direct call of a function and its result
    ncalls              \* number of direct detector calls made so far

vars == <<data, request, selected_maxima, selected_minima, results,
          difference_results, data_stats, run, call, ncalls>>

----------------------------------------------------------------------------
(* Python list helpers *)

At(s, i) == s[i + 1]

Max2(a, b) == IF a >= b THEN a ELSE b

Min2(a, b) == IF a <= b THEN a ELSE b

Abs(x) == IF x < 0 THEN -x ELSE x

\* s[lo:hi] of Python for bounds already clipped to the list
Slice(s, lo, hi) == IF hi <= lo THEN << >> ELSE SubSeq(s, lo + 1, hi)

RECURSIVE SeqMin(_)
SeqMin(s) == IF Len(s) = 1 THEN s[1] ELSE Min2(s[1], SeqMin(Tail(s)))

RECURSIVE SeqMax(_)
SeqMax(s) == IF Len(s) = 1 THEN s[1] ELSE Max2(s[1], SeqMax(Tail(s)))

RECURSIVE SeqSum(_)
SeqSum(s) == IF s = << >> THEN 0 ELSE s[1] + SeqSum(Tail(s))

\* list(range(lo, hi))
Range(lo, hi) == IF hi <= lo THEN << >> ELSE [k \in 1..(hi - lo) |-> lo + k - 1]

\* [(i, data[i]) for i in idxs]
Entries(d, idxs) == [k \in 1..Len(idxs) |-> <<idxs[k], At(d, idxs[k])>>]

\* [(typ, idx, val) for idx, val in lst]
Tagged(typ, lst) == [k \in 1..Len(lst) |-> <<typ, lst[k][1], lst[k][2]>>]

\* [(idx, val) for typ, idx, val in extrema if typ == t]
OfType(extrema, typ) ==
    LET sel == SelectSeq(extrema, LAMBDA e : e[1] = typ)
    IN  [k \in 1..Len(sel) |-> <<sel[k][2], sel[k][3]>>]

\* sorted(s, key=Key) / s.sort(key=Key): ascending and stable.  The element at
\* position i moves behind every element with a smaller key and behind the
\* earlier elements with an equal key.
SortByKey(s, Key(_)) ==
    LET n == Len(s)
        Pos(i) == 1 + Cardinality({j \in 1..n :
                        \/ Key(s[j]) < Key(s[i])
                        \/ (Key(s[j]) = Key(s[i]) /\ j < i)})
    IN  [p \in 1..n |-> s[CHOOSE i \in 1..n : Pos(i) = p]]

----------------------------------------------------------------------------
(* Statistics of analyze_data_characteristics, kept as exact numerators.   *)
(*   diffs        = np.diff(data)                                          *)
(*   noise_level  = np.std(diffs) = sqrt(NoiseNum(data)) / Len(diffs)      *)
(*   std_val      = np.std(data)  = sqrt(StdNum(data))   / Len(data)       *)

Diffs(d) == [k \in 1..(Len(d) - 1) |-> d[k + 1] - d[k]]

Squares(s) == [k \in 1..Len(s) |-> s[k] * s[k]]

\* n * sum(x^2) - sum(x)^2 = n^2 * variance
VarNum(s) == Len(s) * SeqSum(Squares(s)) - SeqSum(s) * SeqSum(s)

NoiseNum(d) == VarNum(Diffs(d))

StdNum(d) == VarNum(d)

\* x > (p/q) * sqrt(num) / n   for p, q, n > 0 and num >= 0
GtRoot(x, p, q, num, n) == x > 0 /\ (x * q * n) * (x * q * n) > p * p * num

\* x >= (p/q) * sqrt(num) / n
GeRoot(x, p, q, num, n) == x >= 0 /\ (x * q * n) * (x * q * n) >= p * p * num

----------------------------------------------------------------------------
(* The six detection strategies.  Each returns <<minima, maxima>>.         *)

\* 0.4 in model units (min_threshold of _detect_strict and _detect_enhanced)
MinCeiling == 8

\* _detect_simple with "x > threshold" given as Gt, so that the same body
\* serves an integer threshold and the threshold noise_level * 0.1:
\*   curr >  prev + t  is  Gt(curr - prev)
\*   curr >= next - t  is  ~Gt(next - curr)
\*   curr <  prev - t  is  Gt(prev - curr)
\*   curr <= next + t  is  ~Gt(curr - next)
detect_simple_with(d, Gt(_)) ==
    IF Len(d) < 3 THEN << << >>, << >> >>
    ELSE
      LET IsMax(i) == Gt(At(d, i) - At(d, i - 1)) /\ ~Gt(At(d, i + 1) - At(d, i))
          IsMin(i) == Gt(At(d, i - 1) - At(d, i)) /\ ~Gt(At(d, i) - At(d, i + 1))
          idxs == Range(1, Len(d) - 1)
      IN  << Entries(d, SelectSeq(idxs, LAMBDA i : ~IsMax(i) /\ IsMin(i))),
             Entries(d, SelectSeq(idxs, IsMax)) >>

\* variant of detect_simple whose strict comparisons admit equality and
\* whose weak ones exclude it
detect_simple_weak(d, threshold) == detect_simple_with(d, LAMBDA x : x >= threshold)

detect_simple(d, threshold) == detect_simple_with(d, LAMBDA x : x > threshold)

\* variant of detect_window that tests for a minimum whether or not the
\* point is a maximum
detect_window_both(d, window_size, threshold) ==
    IF Len(d) < window_size + 2 THEN << << >>, << >> >>
    ELSE
      LET Win(i) == Slice(d, i - window_size, i) \o Slice(d, i + 1, i + window_size + 1)
          is_local_max(i) == \A k \in 1..Len(Win(i)) : At(d, i) >= Win(i)[k]
          is_local_min(i) == \A k \in 1..Len(Win(i)) : At(d, i) <= Win(i)[k]
          idxs == Range(window_size, Len(d) - window_size)
      IN  << Entries(d, SelectSeq(idxs, is_local_min)),
             Entries(d, SelectSeq(idxs, is_local_max)) >>


\* variant of detect_window that tests for a minimum first
detect_window_min_first(d, window_size, threshold) ==
    IF Len(d) < window_size + 2 THEN << << >>, << >> >>
    ELSE
      LET Win(i) == Slice(d, i - window_size, i) \o Slice(d, i + 1, i + window_size + 1)
          is_local_max(i) == \A k \in 1..Len(Win(i)) : At(d, i) >= Win(i)[k]
          is_local_min(i) == \A k \in 1..Len(Win(i)) : At(d, i) <= Win(i)[k]
          idxs == Range(window_size, Len(d) - window_size)
      IN  << Entries(d, SelectSeq(idxs, is_local_min)),
             Entries(d, SelectSeq(idxs, LAMBDA i : ~is_local_min(i) /\ is_local_max(i))) >>


detect_window(d, window_size, threshold) ==
    IF Len(d) < window_size + 2 THEN << << >>, << >> >>
    ELSE
      LET Win(i) == Slice(d, i - window_size, i) \o Slice(d, i + 1, i + window_size + 1)
          is_local_max(i) == \A k \in 1..Len(Win(i)) : At(d, i) >= Win(i)[k]
          is_local_min(i) == \A k \in 1..Len(Win(i)) : At(d, i) <= Win(i)[k]
          idxs == Range(window_size, Len(d) - window_size)
      IN  << Entries(d, SelectSeq(idxs, LAMBDA i : ~is_local_max(i) /\ is_local_min(i))),
             Entries(d, SelectSeq(idxs, is_local_max)) >>

\* variant of detect_slope that reports the entries of the slope array
\* instead of those of the sequence
detect_slope_of_slopes(d, threshold) ==
    IF Len(d) < 4 THEN << << >>, << >> >>
    ELSE
      LET slopes == Diffs(d)
          Live(i) == ~(Abs(At(slopes, i)) < threshold)
          IsMax(i) == Live(i) /\ At(slopes, i - 1) > threshold
                              /\ At(slopes, i) < -threshold
          IsMin(i) == Live(i) /\ At(slopes, i - 1) < -threshold
                              /\ At(slopes, i) > threshold
          idxs == Range(1, Len(slopes) - 1)
      IN  << Entries(slopes, SelectSeq(idxs, LAMBDA i : ~IsMax(i) /\ IsMin(i))),
             Entries(slopes, SelectSeq(idxs, IsMax)) >>

detect_slope(d, threshold) ==
    IF Len(d) < 4 THEN << << >>, << >> >>
    ELSE
      LET slopes == Diffs(d)
          Live(i) == ~(Abs(At(slopes, i)) < threshold)
          IsMax(i) == Live(i) /\ At(slopes, i - 1) > threshold
                              /\ At(slopes, i) < -threshold
          IsMin(i) == Live(i) /\ At(slopes, i - 1) < -threshold
                              /\ At(slopes, i) > threshold
          idxs == Range(1, Len(slopes) - 1)
      IN  << Entries(d, SelectSeq(idxs, LAMBDA i : ~IsMax(i) /\ IsMin(i))),
             Entries(d, SelectSeq(idxs, IsMax)) >>

\* variant of alternating_walk that accepts a candidate of the kind accepted
\* last
RECURSIVE alternating_walk_any_kind(_, _, _, _)
alternating_walk_any_kind(all_extrema, k, extrema, threshold) ==
    IF k > Len(all_extrema) THEN extrema
    ELSE
      LET e == all_extrema[k]
          last == extrema[Len(extrema)]
          accept ==
            IF extrema = << >> THEN TRUE
            ELSE \/ (e[1] = "max" /\ e[3] > last[3] + threshold)
                 \/ (e[1] = "min" /\ e[3] < last[3] - threshold)
      IN  alternating_walk_any_kind(all_extrema, k + 1,
                           IF accept THEN Append(extrema, e) ELSE extrema, threshold)

\* the acceptance loop of _detect_alternating over all_extrema[k..]
RECURSIVE alternating_walk(_, _, _, _)
alternating_walk(all_extrema, k, extrema, threshold) ==
    IF k > Len(all_extrema) THEN extrema
    ELSE
      LET e == all_extrema[k]
          last == extrema[Len(extrema)]
          accept ==
            IF extrema = << >> THEN TRUE
            ELSE /\ e[1] # last[1]
                 /\ \/ (e[1] = "max" /\ e[3] > last[3] + threshold)
                    \/ (e[1] = "min" /\ e[3] < last[3] - threshold)
      IN  alternating_walk(all_extrema, k + 1,
                           IF accept THEN Append(extrema, e) ELSE extrema, threshold)

detect_alternating(d, threshold) ==
    IF Len(d) < 5 THEN << << >>, << >> >>
    ELSE
      LET IsMax(i) == /\ At(d, i) > At(d, i - 1) + threshold
                      /\ At(d, i) > At(d, i + 1) + threshold
                      /\ At(d, i) > At(d, i - 2) + threshold
                      /\ At(d, i) > At(d, i + 2) + threshold
          IsMin(i) == /\ At(d, i) < At(d, i - 1) - threshold
                      /\ At(d, i) < At(d, i + 1) - threshold
                      /\ At(d, i) < At(d, i - 2) - threshold
                      /\ At(d, i) < At(d, i + 2) - threshold
          idxs == Range(2, Len(d) - 2)
          all_maxima == Entries(d, SelectSeq(idxs, IsMax))
          all_minima == Entries(d, SelectSeq(idxs, LAMBDA i : ~IsMax(i) /\ IsMin(i)))
          all_extrema == SortByKey(Tagged("max", all_maxima) \o Tagged("min", all_minima),
                                   LAMBDA e : e[2])
          extrema == alternating_walk(all_extrema, 1, << >>, threshold)
      IN  << OfType(extrema, "min"), OfType(extrema, "max") >>

\* the 7-point candidate test shared by _detect_enhanced and _detect_strict
is_max7(d, i) == \A j \in (i - 3)..(i + 3) : j # i => ~(At(d, j) >= At(d, i))

is_min7(d, i) == \A j \in (i - 3)..(i + 3) : j # i => ~(At(d, j) <= At(d, i))

\* variant of enhanced_min_threshold10 that takes the larger of the two bounds
enhanced_min_threshold10_max(d) ==
    Max2(10 * MinCeiling, 10 * SeqMin(d) + 3 * (SeqMax(d) - SeqMin(d)))

\* 10 * min_threshold of _detect_enhanced, min_threshold being
\* min(0.4, min_val + data_range * 0.3)
enhanced_min_threshold10(d) ==
    Min2(10 * MinCeiling, 10 * SeqMin(d) + 3 * (SeqMax(d) - SeqMin(d)))

\* variant of enhanced_walk whose value margin is threshold, not threshold * 2
RECURSIVE enhanced_walk_margin1(_, _, _, _, _)
enhanced_walk_margin1(all_extrema, k, final_extrema, threshold, min_threshold10) ==
    IF k > Len(all_extrema) THEN final_extrema
    ELSE
      LET e == all_extrema[k]
          last == final_extrema[Len(final_extrema)]
          accept ==
            IF final_extrema = << >> THEN TRUE
            ELSE /\ e[1] # last[1]
                 /\ e[2] - last[2] >= 2
                 /\ Abs(e[3] - last[3]) >= threshold
                 /\ \/ /\ e[1] = "min"
                       /\ 10 * e[3] <= min_threshold10
                       /\ e[3] < last[3] - threshold
                    \/ /\ e[1] = "max"
                       /\ e[3] > last[3] + threshold
      IN  enhanced_walk_margin1(all_extrema, k + 1,
                        IF accept THEN Append(final_extrema, e) ELSE final_extrema,
                        threshold, min_threshold10)

\* the acceptance loop of _detect_enhanced
RECURSIVE enhanced_walk(_, _, _, _, _)
enhanced_walk(all_extrema, k, final_extrema, threshold, min_threshold10) ==
    IF k > Len(all_extrema) THEN final_extrema
    ELSE
      LET e == all_extrema[k]
          last == final_extrema[Len(final_extrema)]
          accept ==
            IF final_extrema = << >> THEN TRUE
            ELSE /\ e[1] # last[1]
                 /\ e[2] - last[2] >= 2
                 /\ Abs(e[3] - last[3]) >= threshold
                 /\ \/ /\ e[1] = "min"
                       /\ 10 * e[3] <= min_threshold10
                       /\ e[3] < last[3] - threshold * 2
                    \/ /\ e[1] = "max"
                       /\ e[3] > last[3] + threshold * 2
      IN  enhanced_walk(all_extrema, k + 1,
                        IF accept THEN Append(final_extrema, e) ELSE final_extrema,
                        threshold, min_threshold10)

detect_enhanced(d, threshold) ==
    IF Len(d) < 7 THEN << << >>, << >> >>
    ELSE
      LET idxs == Range(3, Len(d) - 3)
          min_threshold10 == enhanced_min_threshold10(d)
          potential_maxima == Entries(d, SelectSeq(idxs, LAMBDA i : is_max7(d, i)))
          potential_minima ==
              Entries(d, SelectSeq(idxs, LAMBDA i :
                  ~(10 * At(d, i) > min_threshold10) /\ is_min7(d, i)))
          all_extrema == SortByKey(Tagged("max", potential_maxima)
                                     \o Tagged("min", potential_minima),
                                   LAMBDA e : e[2])
          final_extrema == enhanced_walk(all_extrema, 1, << >>, threshold,
                                         min_threshold10)
      IN  << OfType(final_extrema, "min"), OfType(final_extrema, "max") >>

\* variant of strict_walk that asks for an index distance of 2, as Enhanced
RECURSIVE strict_walk_gap2(_, _, _, _)
strict_walk_gap2(all_extrema, k, final_extrema, threshold) ==
    IF k > Len(all_extrema) THEN final_extrema
    ELSE
      LET e == all_extrema[k]
          last == final_extrema[Len(final_extrema)]
          accept ==
            IF final_extrema = << >>
            THEN e[1] = "max" \/ (e[1] = "min" /\ e[3] <= MinCeiling)
            ELSE /\ e[1] # last[1]
                 /\ e[2] - last[2] >= 2
                 /\ Abs(e[3] - last[3]) >= threshold
                 /\ \/ /\ e[1] = "min"
                       /\ e[3] <= MinCeiling
                       /\ e[3] < last[3] - threshold * 3
                    \/ /\ e[1] = "max"
                       /\ e[3] > last[3] + threshold * 3
      IN  strict_walk_gap2(all_extrema, k + 1,
                      IF accept THEN Append(final_extrema, e) ELSE final_extrema,
                      threshold)

\* the acceptance loop of _detect_strict
RECURSIVE strict_walk(_, _, _, _)
strict_walk(all_extrema, k, final_extrema, threshold) ==
    IF k > Len(all_extrema) THEN final_extrema
    ELSE
      LET e == all_extrema[k]
          last == final_extrema[Len(final_extrema)]
          accept ==
            IF final_extrema = << >>
            THEN e[1] = "max" \/ (e[1] = "min" /\ e[3] <= MinCeiling)
            ELSE /\ e[1] # last[1]
                 /\ e[2] - last[2] >= 3
                 /\ Abs(e[3] - last[3]) >= threshold
                 /\ \/ /\ e[1] = "min"
                       /\ e[3] <= MinCeiling
                       /\ e[3] < last[3] - threshold * 3
                    \/ /\ e[1] = "max"
                       /\ e[3] > last[3] + threshold * 3
      IN  strict_walk(all_extrema, k + 1,
                      IF accept THEN Append(final_extrema, e) ELSE final_extrema,
                      threshold)

detect_strict(d, threshold) ==
    IF Len(d) < 7 THEN << << >>, << >> >>
    ELSE
      LET idxs == Range(3, Len(d) - 3)
          potential_maxima == Entries(d, SelectSeq(idxs, LAMBDA i : is_max7(d, i)))
          potential_minima ==
              Entries(d, SelectSeq(idxs, LAMBDA i :
                  At(d, i) <= MinCeiling /\ is_min7(d, i)))
          all_extrema == SortByKey(Tagged("max", potential_maxima)
                                     \o Tagged("min", potential_minima),
                                   LAMBDA e : e[2])
          final_extrema == strict_walk(all_extrema, 1, << >>, threshold)
      IN  << OfType(final_extrema, "min"), OfType(final_extrema, "max") >>

----------------------------------------------------------------------------
(* ResultRefiner: _post_process_results and its two helpers.               *)

\* sorted({idx: val for idx, val in lst}.items()): one entry per index, the
\* value of the last entry with that index, ascending by index
dedup_sorted(lst) ==
    LET idxs == {lst[k][1] : k \in 1..Len(lst)}
        LastOf(i) == CHOOSE k \in 1..Len(lst) :
                        /\ lst[k][1] = i
                        /\ \A j \in (k + 1)..Len(lst) : lst[j][1] # i
        Nth(p) == CHOOSE i \in idxs : Cardinality({j \in idxs : j < i}) = p - 1
    IN  [p \in 1..Cardinality(idxs) |-> <<Nth(p), lst[LastOf(Nth(p))][2]>>]

\* the loop of _remove_close_extrema over extrema[k..]
RECURSIVE remove_close_walk(_, _, _, _)
remove_close_walk(extrema, k, filtered, min_distance) ==
    IF k > Len(extrema) THEN filtered
    ELSE remove_close_walk(extrema, k + 1,
            IF extrema[k][1] - filtered[Len(filtered)][1] >= min_distance
            THEN Append(filtered, extrema[k]) ELSE filtered,
            min_distance)

\* variant of remove_close_extrema that keeps an entry one index too early
remove_close_extrema_loose(extrema, min_distance) ==
    IF extrema = << >> THEN << >>
    ELSE remove_close_walk(extrema, 2, <<extrema[1]>>, min_distance - 1)

remove_close_extrema(extrema, min_distance) ==
    IF extrema = << >> THEN << >>
    ELSE remove_close_walk(extrema, 2, <<extrema[1]>>, min_distance)

\* variant of filter_by_quality whose window radius is always 3
filter_by_quality_radius3(extrema, d, noise_num, noise_den, is_minimum) ==
    LET window_size == 3
        Local(idx) == Slice(d, Max2(0, idx - window_size),
                               Min2(Len(d), idx + window_size + 1))
        Keep(e) ==
            IF Local(e[1]) = << >> THEN FALSE
            ELSE IF is_minimum
                 THEN ~GtRoot(e[2] - SeqMin(Local(e[1])), 2, 1, noise_num, noise_den)
                 ELSE ~GtRoot(SeqMax(Local(e[1])) - e[2], 2, 1, noise_num, noise_den)
    IN  SelectSeq(extrema, Keep)


\* noise_level is sqrt(noise_num) / noise_den
filter_by_quality(extrema, d, noise_num, noise_den, is_minimum) ==
    LET window_size == Min2(3, Len(d) \div 10)
        Local(idx) == Slice(d, Max2(0, idx - window_size),
                               Min2(Len(d), idx + window_size + 1))
        Keep(e) ==
            IF Local(e[1]) = << >> THEN FALSE
            ELSE IF is_minimum
                 THEN ~GtRoot(e[2] - SeqMin(Local(e[1])), 2, 1, noise_num, noise_den)
                 ELSE ~GtRoot(SeqMax(Local(e[1])) - e[2], 2, 1, noise_num, noise_den)
    IN  SelectSeq(extrema, Keep)

\* variant of post_process_results that returns the two lists in the other
\* order, (maxima, minima)
post_process_results_swapped(minima, maxima, d, characteristics) ==
    LET min_distance == Max2(2, Len(d) \div 100)
        minima1 == remove_close_extrema(dedup_sorted(minima), min_distance)
        maxima1 == remove_close_extrema(dedup_sorted(maxima), min_distance)
        noise_positive == characteristics.set /\ characteristics.noise_num > 0
    IN  IF noise_positive
        THEN << filter_by_quality(maxima1, d, characteristics.noise_num,
                                  characteristics.noise_den, FALSE),
                filter_by_quality(minima1, d, characteristics.noise_num,
                                  characteristics.noise_den, TRUE) >>
        ELSE << maxima1, minima1 >>

\* variant of post_process_results that refines the minima only
post_process_results_minima_only(minima, maxima, d, characteristics) ==
    LET min_distance == Max2(2, Len(d) \div 100)
        minima1 == remove_close_extrema(dedup_sorted(minima), min_distance)
        noise_positive == characteristics.set /\ characteristics.noise_num > 0
    IN  IF noise_positive
        THEN << filter_by_quality(minima1, d, characteristics.noise_num,
                                  characteristics.noise_den, TRUE),
                filter_by_quality(maxima, d, characteristics.noise_num,
                                  characteristics.noise_den, FALSE) >>
        ELSE << minima1, maxima >>

post_process_results(minima, maxima, d, characteristics) ==
    LET min_distance == Max2(2, Len(d) \div 100)
        minima1 == remove_close_extrema(dedup_sorted(minima), min_distance)
        maxima1 == remove_close_extrema(dedup_sorted(maxima), min_distance)
        noise_positive == characteristics.set /\ characteristics.noise_num > 0
    IN  IF noise_positive
        THEN << filter_by_quality(minima1, d, characteristics.noise_num,
                                  characteristics.noise_den, TRUE),
                filter_by_quality(maxima1, d, characteristics.noise_num,
                                  characteristics.noise_den, FALSE) >>
        ELSE << minima1, maxima1 >>

----------------------------------------------------------------------------
(* CharacteristicsAnalyzer and MethodSelector.                             *)

Sign(x) == IF x > 0 THEN 1 ELSE IF x < 0 THEN -1 ELSE 0

\* change_rate > 0.3 with change_rate = sign_changes / len(diffs)
is_oscillatory_pattern(d) ==
    IF Len(d) < 10 THEN FALSE
    ELSE LET diffs == Diffs(d)
             sign_changes == Cardinality({k \in 1..(Len(diffs) - 1) :
                                 Sign(diffs[k + 1]) # Sign(diffs[k])})
         IN  10 * sign_changes > 3 * Len(diffs)

\* max_consecutive >= 5, a diff being similar when |diff| < noise_level * 0.5
has_plateaus(d, noise_num, noise_den) ==
    IF Len(d) < 5 THEN FALSE
    ELSE LET diffs == Diffs(d)
             Similar(k) == ~GeRoot(Abs(diffs[k]), 1, 2, noise_num, noise_den)
         IN  \E k \in 1..(Len(diffs) - 4) : \A j \in k..(k + 4) : Similar(j)

\* The characteristics record.  mean_val is sum_val / length, std_val is
\* sqrt(std_num) / length, noise_level is sqrt(noise_num) / noise_den,
\* extrema_density is estimated_extrema_count / length and variability is
\* std_val / range_val (0 when range_val is 0).  {} is [set |-> FALSE].
analyze_data_characteristics(d) ==
    IF d = << >> THEN [set |-> FALSE]
    ELSE
      LET noise_num == NoiseNum(d)
          noise_den == Len(d) - 1
          simple_extrema ==
              detect_simple_with(d, LAMBDA x : GtRoot(x, 1, 10, noise_num, noise_den))
      IN  [set |-> TRUE,
           length |-> Len(d),
           min_val |-> SeqMin(d),
           max_val |-> SeqMax(d),
           sum_val |-> SeqSum(d),
           std_num |-> StdNum(d),
           range_val |-> SeqMax(d) - SeqMin(d),
           noise_num |-> noise_num,
           noise_den |-> noise_den,
           is_oscillatory |-> is_oscillatory_pattern(d),
           has_plateaus |-> has_plateaus(d, noise_num, noise_den),
           estimated_extrema_count |->
               Len(simple_extrema[1]) + Len(simple_extrema[2])]

\* variant of select_optimal_method that tries the plateau row before the
\* oscillation row
select_optimal_method_plateau_first(c) ==
    IF ~c.set THEN "simple"
    ELSE IF c.length < 10 THEN "simple"
    ELSE IF c.has_plateaus THEN "window"
    ELSE IF c.is_oscillatory /\ 10 * c.estimated_extrema_count > c.length
         THEN "alternating"
    ELSE IF 100 * c.noise_num * c.length * c.length
              > c.std_num * c.noise_den * c.noise_den
         THEN "enhanced"
    ELSE IF 5 * c.estimated_extrema_count > c.length THEN "strict"
    ELSE IF (IF c.range_val > 0
             THEN 100 * c.std_num < c.range_val * c.range_val * c.length * c.length
             ELSE TRUE)
         THEN "slope"
    ELSE "enhanced"

select_optimal_method(c) ==
    IF ~c.set THEN "simple"                      \* every .get() default: length 0
    ELSE IF c.length < 10 THEN "simple"
    ELSE IF c.is_oscillatory /\ 10 * c.estimated_extrema_count > c.length
         THEN "alternating"
    ELSE IF c.has_plateaus THEN "window"
    ELSE IF 100 * c.noise_num * c.length * c.length
              > c.std_num * c.noise_den * c.noise_den
         THEN "enhanced"
    ELSE IF 5 * c.estimated_extrema_count > c.length THEN "strict"
    ELSE IF (IF c.range_val > 0
             THEN 100 * c.std_num < c.range_val * c.range_val * c.length * c.length
             ELSE TRUE)
         THEN "slope"
    ELSE "enhanced"

----------------------------------------------------------------------------
(* detect_extrema.  kwargs is a function from the keyword names passed to  *)
(* their values.  The result says whether the call raised, what it         *)
(* returned, the strategy that ran and the value it leaves in data_stats.  *)

\* threshold: float = 0.0001.  The data of the model lie on the integer grid
\* and 0.0001 is 0.002 grid steps: every comparison the strategies make with
\* a threshold t, 2t or 3t below one grid step has the outcome it has with 0.
DefaultThreshold == 0

DefaultWindowSize == 3

NoMethod == "None"

StrategyNames == {"simple", "window", "slope", "alternating", "enhanced", "strict"}

Arg(kwargs, name, default) == IF name \in DOMAIN kwargs THEN kwargs[name] ELSE default

\* self.detection_methods[method](data, **kwargs): Python binds the keywords
\* to the parameters of the strategy; _detect_simple(data, threshold) has no
\* window_size parameter and no **kwargs, so any other keyword is a TypeError
binding_fails(method, kwargs) ==
    method = "simple" /\ ~(DOMAIN kwargs \subseteq {"threshold"})

run_strategy(method, d, kwargs) ==
    LET threshold == Arg(kwargs, "threshold", DefaultThreshold)
        window_size == Arg(kwargs, "window_size", DefaultWindowSize)
    IN  CASE method = "simple" -> detect_simple(d, threshold)
          [] method = "window" -> detect_window(d, window_size, threshold)
          [] method = "slope" -> detect_slope(d, threshold)
          [] method = "alternating" -> detect_alternating(d, threshold)
          [] method = "strict" -> detect_strict(d, threshold)
          [] OTHER -> detect_enhanced(d, threshold)

\* variant of detect_extrema whose length guard lets two points through
detect_extrema_guard2(d, method, kwargs, stats) ==
    IF d = << >> \/ Len(d) < 2
    THEN [raised |-> FALSE, ret |-> << << >>, << >> >>,
          method |-> method, data_stats |-> stats]
    ELSE
      LET characteristics == analyze_data_characteristics(d)
          chosen == IF method = NoMethod
                    THEN select_optimal_method(characteristics) ELSE method
          strategy == IF chosen \in StrategyNames THEN chosen ELSE "enhanced"
      IN  IF binding_fails(strategy, kwargs)
          THEN [raised |-> TRUE, ret |-> << << >>, << >> >>,
                method |-> chosen, data_stats |-> characteristics]
          ELSE
            LET found == run_strategy(strategy, d, kwargs)
            IN  [raised |-> FALSE,
                 ret |-> post_process_results(found[1], found[2], d, characteristics),
                 method |-> chosen, data_stats |-> characteristics]

\* variant of detect_extrema that reuses the characteristics cached by an
\* earlier run instead of analysing the sequence it is given
detect_extrema_cached(d, method, kwargs, stats) ==
    IF d = << >> \/ Len(d) < 3
    THEN [raised |-> FALSE, ret |-> << << >>, << >> >>,
          method |-> method, data_stats |-> stats]
    ELSE
      LET characteristics == IF stats.set THEN stats
                             ELSE analyze_data_characteristics(d)
          chosen == IF method = NoMethod
                    THEN select_optimal_method(characteristics) ELSE method
          strategy == IF chosen \in StrategyNames THEN chosen ELSE "enhanced"
      IN  IF binding_fails(strategy, kwargs)
          THEN [raised |-> TRUE, ret |-> << << >>, << >> >>,
                method |-> chosen, data_stats |-> characteristics]
          ELSE
            LET found == run_strategy(strategy, d, kwargs)
            IN  [raised |-> FALSE,
                 ret |-> post_process_results(found[1], found[2], d, characteristics),
                 method |-> chosen, data_stats |-> characteristics]

\* variant of detect_extrema that looks the method up without a fallback, so
\* that a name outside the table raises
detect_extrema_lookup(d, method, kwargs, stats) ==
    IF d = << >> \/ Len(d) < 3
    THEN [raised |-> FALSE, ret |-> << << >>, << >> >>,
          method |-> method, data_stats |-> stats]
    ELSE
      LET characteristics == analyze_data_characteristics(d)
          chosen == IF method = NoMethod
                    THEN select_optimal_method(characteristics) ELSE method
      IN  IF chosen \notin StrategyNames \/ binding_fails(chosen, kwargs)
          THEN [raised |-> TRUE, ret |-> << << >>, << >> >>,
                method |-> chosen, data_stats |-> characteristics]
          ELSE
            LET found == run_strategy(chosen, d, kwargs)
            IN  [raised |-> FALSE,
                 ret |-> post_process_results(found[1], found[2], d, characteristics),
                 method |-> chosen, data_stats |-> characteristics]

detect_extrema(d, method, kwargs, stats) ==
    IF d = << >> \/ Len(d) < 3
    THEN [raised |-> FALSE, ret |-> << << >>, << >> >>,
          method |-> method, data_stats |-> stats]
    ELSE
      LET characteristics == analyze_data_characteristics(d)
          chosen == IF method = NoMethod
                    THEN select_optimal_method(characteristics) ELSE method
          strategy == IF chosen \in StrategyNames THEN chosen ELSE "enhanced"
      IN  IF binding_fails(strategy, kwargs)
          THEN [raised |-> TRUE, ret |-> << << >>, << >> >>,
                method |-> chosen, data_stats |-> characteristics]
          ELSE
            LET found == run_strategy(strategy, d, kwargs)
            IN  [raised |-> FALSE,
                 ret |-> post_process_results(found[1], found[2], d, characteristics),
                 method |-> chosen, data_stats |-> characteristics]

----------------------------------------------------------------------------
(* The analysis driver (LocalExtremaGUI).                                  *)

\* the sentinel 999 of min_threshold, in model units (999 / 0.05)
MinUnlimited == 19980

find_local_extrema_unified(d, method, kwargs, stats) ==
    IF method = "auto"
    THEN detect_extrema(d, NoMethod, kwargs, stats)
    ELSE detect_extrema(d, method, kwargs, stats)

\* variant of apply_threshold_filter that drops a maximum equal to the bound
apply_threshold_filter_strict(minima, maxima, max_threshold, min_threshold) ==
    << IF min_threshold < MinUnlimited
       THEN SelectSeq(minima, LAMBDA e : e[2] <= min_threshold) ELSE minima,
       IF max_threshold > 0
       THEN SelectSeq(maxima, LAMBDA e : e[2] > max_threshold) ELSE maxima >>

apply_threshold_filter(minima, maxima, max_threshold, min_threshold) ==
    << IF min_threshold < MinUnlimited
       THEN SelectSeq(minima, LAMBDA e : e[2] <= min_threshold) ELSE minima,
       IF max_threshold > 0
       THEN SelectSeq(maxima, LAMBDA e : e[2] >= max_threshold) ELSE maxima >>

\* variant of top_by_abs that sorts ascending and reverses, which turns the
\* order of entries of equal key around
top_by_abs_reversed(lst, limit) ==
    LET asc == SortByKey(lst, LAMBDA e : Abs(e[2]))
        desc == [k \in 1..Len(asc) |-> asc[Len(asc) + 1 - k]]
    IN  SubSeq(desc, 1, Min2(limit, Len(lst)))

\* sorted(lst, key=lambda x: abs(x[1]), reverse=True)[:limit]; reverse=True
\* keeps entries of equal key in their original order
top_by_abs(lst, limit) ==
    SubSeq(SortByKey(lst, LAMBDA e : -Abs(e[2])), 1, Min2(limit, Len(lst)))

\* variant of filter_results_by_count whose exemption list lacks "strict"
filter_results_by_count_two(minima, maxima, max_count_limit, min_count_limit, method) ==
    IF method \in {"alternating", "enhanced"}
    THEN << minima, maxima >>
    ELSE << IF min_count_limit > 0 /\ Len(minima) > min_count_limit
            THEN top_by_abs(minima, min_count_limit) ELSE minima,
            IF max_count_limit > 0 /\ Len(maxima) > max_count_limit
            THEN top_by_abs(maxima, max_count_limit) ELSE maxima >>

filter_results_by_count(minima, maxima, max_count_limit, min_count_limit, method) ==
    IF method \in {"alternating", "enhanced", "strict"}
    THEN << minima, maxima >>
    ELSE << IF min_count_limit > 0 /\ Len(minima) > min_count_limit
            THEN top_by_abs(minima, min_count_limit) ELSE minima,
            IF max_count_limit > 0 /\ Len(maxima) > max_count_limit
            THEN top_by_abs(maxima, max_count_limit) ELSE maxima >>

\* radius of the manual-snap window
SnapWindow == 10

\* the scan "for i in range(i, end_idx)" of find_extrema_around_selections;
\* sign is 1 for a maximum and -1 for a minimum
RECURSIVE snap_scan(_, _, _, _, _)
snap_scan(d, i, end_idx, best, sign) ==
    IF i >= end_idx THEN best
    ELSE snap_scan(d, i + 1, end_idx,
                   IF sign * At(d, i) > sign * best[2] THEN <<i, At(d, i)>> ELSE best,
                   sign)

\* variant of snap whose best starts at the first position of the window
\* instead of the selected one
snap_from_window_start(d, selected_idx, sign) ==
    snap_scan(d, Max2(0, selected_idx - SnapWindow),
              Min2(Len(d), selected_idx + SnapWindow + 1),
              <<Max2(0, selected_idx - SnapWindow),
                At(d, Max2(0, selected_idx - SnapWindow))>>, sign)

\* variant of snap whose scan stops one position early
snap_short(d, selected_idx, sign) ==
    snap_scan(d, Max2(0, selected_idx - SnapWindow),
              Min2(Len(d), selected_idx + SnapWindow),
              <<selected_idx, At(d, selected_idx)>>, sign)

snap(d, selected_idx, sign) ==
    snap_scan(d, Max2(0, selected_idx - SnapWindow),
              Min2(Len(d), selected_idx + SnapWindow + 1),
              <<selected_idx, At(d, selected_idx)>>, sign)

\* variant of snap_all that appends every snapped entry
RECURSIVE snap_all_keep_all(_, _, _, _, _)
snap_all_keep_all(d, selected, k, found, sign) ==
    IF k > Len(selected) THEN found
    ELSE LET e == snap(d, selected[k][1], sign)
         IN  snap_all_keep_all(d, selected, k + 1, Append(found, e), sign)


\* one of the two loops: snap every selection, append unless already present
RECURSIVE snap_all(_, _, _, _, _)
snap_all(d, selected, k, found, sign) ==
    IF k > Len(selected) THEN found
    ELSE LET e == snap(d, selected[k][1], sign)
         IN  snap_all(d, selected, k + 1,
                      IF \E j \in 1..Len(found) : found[j] = e
                      THEN found ELSE Append(found, e),
                      sign)

\* self.data[selected_idx] raises IndexError for an index past the end
find_extrema_around_selections(d, sel_maxima, sel_minima) ==
    IF \/ (\E k \in 1..Len(sel_maxima) : sel_maxima[k][1] >= Len(d))
       \/ (\E j \in 1..Len(sel_minima) : sel_minima[j][1] >= Len(d))
    THEN [raised |-> TRUE, ret |-> << << >>, << >> >>]
    ELSE [raised |-> FALSE,
          ret |-> << snap_all(d, sel_minima, 1, << >>, -1),
                     snap_all(d, sel_maxima, 1, << >>, 1) >>]

\* variant of difference_pairs that pairs the lists in their stored order
difference_pairs_stored_order(maxima, minima) ==
    LET min_len == Min2(Len(maxima), Len(minima))
    IN  [i \in 1..min_len |->
            [pair_number |-> i,
             max_index |-> maxima[i][1],
             max_value |-> maxima[i][2],
             min_index |-> minima[i][1],
             min_value |-> minima[i][2],
             difference |-> maxima[i][2] - minima[i][2]]]

\* the pairs built by calculate_differences from the stored result lists
difference_pairs(maxima, minima) ==
    LET maxima_sorted == SortByKey(maxima, LAMBDA e : e[1])
        minima_sorted == SortByKey(minima, LAMBDA e : e[1])
        min_len == Min2(Len(maxima_sorted), Len(minima_sorted))
    IN  [i \in 1..min_len |->
            [pair_number |-> i,
             max_index |-> maxima_sorted[i][1],
             max_value |-> maxima_sorted[i][2],
             min_index |-> minima_sorted[i][1],
             min_value |-> minima_sorted[i][2],
             difference |-> maxima_sorted[i][2] - minima_sorted[i][2]]]

----------------------------------------------------------------------------
(* Inputs.  Short sequences are enumerated exhaustively; long ones (the    *)
(* refiner's window radius and the method selector depend on the length)   *)
(* are concatenations of ten-point blocks.                                 *)

MaxShort == 3

MaxBlocks == 3

ShortVals == {4, 6, 9}

RECURSIVE SeqsUpTo(_, _)
SeqsUpTo(S, n) ==
    IF n = 0 THEN { << >> }
    ELSE LET shorter == SeqsUpTo(S, n - 1)
         IN  shorter \cup {Append(s, v) : s \in {t \in shorter : Len(t) = n - 1}, v \in S}

ShortSeqs == SeqsUpTo(ShortVals, MaxShort)

\* a peak then a valley with a plateau between; a deep point then a peak
Blocks == { <<6, 7, 9, 7, 6, 6, 6, 4, 6, 6>>,
            <<-1, 6, 6, 6, 6, 6, 7, 9, 7, 6>> }

RECURSIVE BlockSeqs(_)
BlockSeqs(n) ==
    IF n = 0 THEN { << >> }
    ELSE {s \o b : s \in BlockSeqs(n - 1), b \in Blocks}

LongSeqs == UNION {BlockSeqs(n) : n \in 1..MaxBlocks}

DataFiles == (ShortSeqs \ { << >> }) \cup LongSeqs

Methods == {"auto"} \cup StrategyNames

\* <<max_count, min_count, max_threshold, min_threshold>>: no constraint;
\* count caps; a cap on the maxima with both value thresholds
Constraints == { <<0, 0, 0, MinUnlimited>>, <<3, 2, 0, MinUnlimited>>, <<1, 0, 8, 5>> }

\* <<threshold, window_size>>
Tunings == { <<0, 1>>, <<1, 1>>, <<0, 2>> }

AutoRequests ==
    { [mode |-> "auto", method |-> m, threshold |-> t[1], window_size |-> t[2],
       max_count |-> c[1], min_count |-> c[2],
       max_threshold |-> c[3], min_threshold |-> c[4]] :
         m \in Methods, t \in Tunings, c \in Constraints }

NoResults == [set |-> FALSE]

NoStats == [set |-> FALSE]

NoRun == [outcome |-> "none"]

NoCall == [fn |-> "none"]

Kwargs(threshold, window_size) ==
    [k \in {"threshold", "window_size"} |->
        IF k = "threshold" THEN threshold ELSE window_size]

----------------------------------------------------------------------------
(* Actions of the analysis driver.                                         *)

\* run_analysis, automatic mode (lines 776-821); an exception raised by the
\* detector is caught at line 823 and leaves self.results as it was
RunAuto ==
    \E det \in {find_local_extrema_unified(data, request.method,
                   Kwargs(request.threshold, request.window_size), data_stats)} :
    \E thresholded \in {apply_threshold_filter(det.ret[1], det.ret[2],
                           request.max_threshold, request.min_threshold)} :
    \E counted \in {filter_results_by_count(thresholded[1], thresholded[2],
                       request.max_count, request.min_count, request.method)} :
        /\ data_stats' = det.data_stats
        /\ IF det.raised
           THEN /\ run' = [outcome |-> "error", mode |-> "auto",
                           selected |-> det.method]
                /\ UNCHANGED results
           ELSE /\ run' = [outcome |-> "ok", mode |-> "auto",
                           selected |-> det.method, detected |-> det.ret,
                           thresholded |-> thresholded, counted |-> counted]
                /\ results' = [set |-> TRUE, minima |-> counted[1],
                               maxima |-> counted[2], method |-> request.method]

\* run_analysis, manual mode (lines 753-774)
RunManual ==
    IF selected_maxima = << >> /\ selected_minima = << >>
    THEN /\ run' = [outcome |-> "no_selection", mode |-> "manual"]
         /\ UNCHANGED <<results, data_stats>>
    ELSE \E found \in {find_extrema_around_selections(data, selected_maxima,
                                                        selected_minima)} :
             /\ UNCHANGED data_stats
             /\ IF found.raised
                THEN /\ run' = [outcome |-> "error", mode |-> "manual"]
                     /\ UNCHANGED results
                ELSE /\ run' = [outcome |-> "ok", mode |-> "manual",
                                sel_maxima |-> selected_maxima,
                                sel_minima |-> selected_minima,
                                detected |-> found.ret]
                     /\ results' = [set |-> TRUE, minima |-> found.ret[1],
                                    maxima |-> found.ret[2],
                                    method |-> "manual_selection"]

RunAnalysis ==
    /\ IF data = << >>
       THEN /\ run' = [outcome |-> "no_data"]
            /\ UNCHANGED <<results, data_stats>>
       ELSE IF request.mode = "manual" THEN RunManual ELSE RunAuto
    /\ UNCHANGED <<data, request, selected_maxima, selected_minima,
                   difference_results, call, ncalls>>

CalculateDifferences ==
    /\ IF ~results.set \/ results.maxima = << >> \/ results.minima = << >>
       THEN UNCHANGED difference_results
       ELSE difference_results' = difference_pairs(results.maxima, results.minima)
    /\ UNCHANGED <<data, request, selected_maxima, selected_minima, results,
                   data_stats, run, call, ncalls>>

ClearResults ==
    /\ results' = NoResults
    /\ difference_results' = << >>
    /\ UNCHANGED <<data, request, selected_maxima, selected_minima,
                   data_stats, run, call, ncalls>>

Init ==
    /\ data \in DataFiles
    /\ request \in AutoRequests
    /\ selected_maxima = << >>
    /\ selected_minima = << >>
    /\ results = NoResults
    /\ difference_results = << >>
    /\ data_stats = NoStats
    /\ run = NoRun
    /\ call = NoCall
    /\ ncalls = 0

Next ==
    \/ RunAnalysis
    \/ CalculateDifferences
    \/ ClearResults

Spec == Init /\ [][Next]_vars

----------------------------------------------------------------------------
(* Direct calls of the detector, as main() of unified_extrema_detector.py  *)
(* makes them: any method value, any subset of the two keywords.           *)

MaxCalls == 2

DetectVals == {4, 9}

DetectData ==
    SeqsUpTo(DetectVals, 2)
        \cup { <<4, 9, 4>>, <<4, 9, 4, 9, 4>>,
               <<6, 7, 9, 7, 6, 5, 3, 5, 6, 7, 9, 7, 6>> }

DetectMethods == {NoMethod, "unknown"} \cup StrategyNames

KwargSets ==
    { [k \in names |-> IF k = "threshold" THEN 1 ELSE 2] :
        names \in SUBSET {"threshold", "window_size"} }

DetectExtrema ==
    /\ ncalls < MaxCalls
    /\ \E d \in DetectData, method \in DetectMethods, kwargs \in KwargSets :
       \E det \in {detect_extrema(d, method, kwargs, data_stats)} :
          /\ call' = [fn |-> "detect_extrema", d |-> d, method |-> method,
                      kwargs |-> kwargs, raised |-> det.raised, ret |-> det.ret,
                      stats_before |-> data_stats]
          /\ data_stats' = det.data_stats
    /\ ncalls' = ncalls + 1
    /\ UNCHANGED <<data, request, selected_maxima, selected_minima, results,
                   difference_results, run>>

DefaultRequest ==
    [mode |-> "auto", method |-> "auto", threshold |-> DefaultThreshold,
     window_size |-> DefaultWindowSize, max_count |-> 0, min_count |-> 0,
     max_threshold |-> 0, min_threshold |-> MinUnlimited]

\* the driver as constructed: no file loaded, nothing selected, no result
Idle ==
    /\ data = << >>
    /\ request = DefaultRequest
    /\ selected_maxima = << >>
    /\ selected_minima = << >>
    /\ results = NoResults
    /\ difference_results = << >>
    /\ run = NoRun

InitDetect ==
    /\ Idle
    /\ data_stats = NoStats
    /\ call = NoCall
    /\ ncalls = 0

NextDetect == DetectExtrema

SpecDetect == InitDetect /\ [][NextDetect]_vars

----------------------------------------------------------------------------
(* A session of the driver in which the user also edits the settings       *)
(* between operations: run_analysis reads the method, the thresholds and   *)
(* the count limits from the widgets each time it is invoked.              *)

SessionFiles == LongSeqs

\* every method, without and with count caps
SessionRequests ==
    {r \in AutoRequests :
        /\ r.threshold = DefaultThreshold
        /\ r.window_size = 1
        /\ r.max_threshold = 0}

ChangeSettings ==
    /\ \E r \in SessionRequests :
          /\ r # request
          /\ request' = r
    /\ UNCHANGED <<data, selected_maxima, selected_minima, results,
                   difference_results, data_stats, run, call, ncalls>>

InitSession ==
    /\ data \in SessionFiles
    /\ request \in SessionRequests
    /\ selected_maxima = << >>
    /\ selected_minima = << >>
    /\ results = NoResults
    /\ difference_results = << >>
    /\ data_stats = NoStats
    /\ run = NoRun
    /\ call = NoCall
    /\ ncalls = 0

NextSession ==
    \/ RunAnalysis
    \/ CalculateDifferences
    \/ ClearResults
    \/ ChangeSettings

SpecSession == InitSession /\ [][NextSession]_vars

----------------------------------------------------------------------------
(* Direct calls of the Alternating, Enhanced and Strict strategies.  The   *)
(* sequences are level 10 (0.5) with peaks 12 and 14 and valleys 2, 6 and  *)
(* 9 on it: alone (next to each other) or followed by a point of the       *)
(* level, between three leading and three trailing points of the level, so *)
(* that every peak and valley lies where the 7-point test can see it.      *)

MaxPieces == 4

FamilyPieces == { <<2>>, <<14>>, <<6, 10>>, <<9, 10>>, <<12, 10>> }

RECURSIVE PieceSeqs(_)
PieceSeqs(n) ==
    IF n = 0 THEN { << >> }
    ELSE {s \o p : s \in PieceSeqs(n - 1), p \in FamilyPieces}

FamilyData ==
    { <<10, 10, 10>> \o s \o <<10, 10, 10>> :
        s \in UNION {PieceSeqs(n) : n \in 0..MaxPieces} }

\* 0 stands for the default 0.0001
FamilyThresholds == {0, 1, 3}

DetectAlternating ==
    /\ call.fn = "sequence"
    /\ \E threshold \in FamilyThresholds :
          call' = [fn |-> "_detect_alternating", d |-> call.d,
                   threshold |-> threshold,
                   ret |-> detect_alternating(call.d, threshold)]
    /\ UNCHANGED <<data, request, selected_maxima, selected_minima, results,
                   difference_results, data_stats, run, ncalls>>

DetectEnhanced ==
    /\ call.fn = "sequence"
    /\ \E threshold \in FamilyThresholds :
          call' = [fn |-> "_detect_enhanced", d |-> call.d,
                   threshold |-> threshold,
                   ret |-> detect_enhanced(call.d, threshold)]
    /\ UNCHANGED <<data, request, selected_maxima, selected_minima, results,
                   difference_results, data_stats, run, ncalls>>

DetectStrict ==
    /\ call.fn = "sequence"
    /\ \E threshold \in FamilyThresholds :
          call' = [fn |-> "_detect_strict", d |-> call.d,
                   threshold |-> threshold,
                   ret |-> detect_strict(call.d, threshold)]
    /\ UNCHANGED <<data, request, selected_maxima, selected_minima, results,
                   difference_results, data_stats, run, ncalls>>

InitFamily ==
    /\ Idle
    /\ data_stats = NoStats
    /\ ncalls = 0
    /\ \E d \in FamilyData : call = [fn |-> "sequence", d |-> d]

NextFamily ==
    \/ DetectAlternating
    \/ DetectEnhanced
    \/ DetectStrict

SpecFamily == InitFamily /\ [][NextFamily]_vars


----------------------------------------------------------------------------
(* C1: a detection run on a sequence of length < 3 (the empty one          *)
(* included) returns ([], []) and does not raise, for every method value   *)
(* and every set of keyword parameters.                                    *)
C1_ShortInputYieldsNothing ==
    (call.fn = "detect_extrema" /\ Len(call.d) < 3)
        => (~call.raised /\ call.ret = << << >>, << >> >>)

\* the case happens with the keywords that make the simple strategy fail on
\* longer input, and with the empty sequence
C1_Witness ==
    /\ call.fn = "detect_extrema"
    /\ Len(call.d) = 2
    /\ call.method = "simple"
    /\ DOMAIN call.kwargs = {"threshold", "window_size"}
    /\ ~call.raised

----------------------------------------------------------------------------
(* Direct calls of the Simple strategy.  The documented sequences          *)
(* [0,5,1,6,2,7,0] and [1,1,1,1,1] are written in model units (x 20).      *)

SimpleScenarios ==
    { <<0, 100, 20, 120, 40, 140, 0>>, <<20, 20, 20, 20, 20>> }

SimpleData ==
    ShortSeqs \cup SeqsUpTo(DetectVals, MaxShort + 2) \cup SimpleScenarios

\* 0 stands for the default 0.0001; 2 and 3 are differences of ShortVals
SimpleThresholds == {0, 2, 3}

DetectSimple ==
    /\ call.fn = "sequence"
    /\ \E threshold \in SimpleThresholds :
          call' = [fn |-> "_detect_simple", d |-> call.d,
                   threshold |-> threshold,
                   ret |-> detect_simple(call.d, threshold)]
    /\ UNCHANGED <<data, request, selected_maxima, selected_minima, results,
                   difference_results, data_stats, run, ncalls>>

InitSimple ==
    /\ Idle
    /\ data_stats = NoStats
    /\ ncalls = 0
    /\ \E d \in SimpleData : call = [fn |-> "sequence", d |-> d]

NextSimple == DetectSimple

SpecSimple == InitSimple /\ [][NextSimple]_vars

----------------------------------------------------------------------------
(* Direct calls of the Window strategy, with window sizes for which the    *)
(* sequences have none, one and several eligible indices.                  *)

WindowSizes == {1, 2, 3}

DetectWindow ==
    /\ call.fn = "sequence"
    /\ \E window_size \in WindowSizes, threshold \in SimpleThresholds :
          call' = [fn |-> "_detect_window", d |-> call.d,
                   window_size |-> window_size, threshold |-> threshold,
                   ret |-> detect_window(call.d, window_size, threshold)]
    /\ UNCHANGED <<data, request, selected_maxima, selected_minima, results,
                   difference_results, data_stats, run, ncalls>>

NextWindow == DetectWindow

SpecWindow == InitSimple /\ [][NextWindow]_vars

----------------------------------------------------------------------------
(* Direct calls of select_optimal_method.  The method takes any            *)
(* characteristics dictionary: the ones analyze_data_characteristics       *)
(* computes from a sequence, and dictionaries whose entries are chosen     *)
(* freely, written here in the representation of the analyzer's record     *)
(* (noise_level = sqrt(noise_num) / noise_den, std_val = sqrt(std_num) /   *)
(* length, extrema_density = estimated_extrema_count / length,             *)
(* variability = std_val / range_val).                                     *)

SelectData == DetectData \cup Blocks

SelectLengths == {9, 10, 20}

\* for each length: 0, the value at which variability is exactly 0.1 when
\* range_val is 1 (rounded down), and the values just below and at which
\* noise_level = std_val * 0.1 when noise_num is noise_den squared
StdNums(length) ==
    {0, (length * length) \div 100, 100 * length * length - 1, 100 * length * length}

\* densities 0.1 and 0.2 are 1 and 2 of 10, 2 and 4 of 20
ExtremaCounts == 1..5

FreeCharacteristics ==
    UNION { { [set |-> TRUE, length |-> length, min_val |-> 0, max_val |-> rng,
               sum_val |-> 0, std_num |-> sn, range_val |-> rng,
               noise_num |-> nn, noise_den |-> length - 1,
               is_oscillatory |-> osc, has_plateaus |-> plat,
               estimated_extrema_count |-> cnt] :
              sn \in StdNums(length), rng \in {0, 1},
              nn \in {0, (length - 1) * (length - 1)},
              osc \in BOOLEAN, plat \in BOOLEAN, cnt \in ExtremaCounts } :
            length \in SelectLengths }

SelectCharacteristics ==
    {analyze_data_characteristics(d) : d \in SelectData} \cup FreeCharacteristics

SelectOptimalMethod ==
    /\ call.fn = "characteristics"
    /\ call' = [fn |-> "select_optimal_method", c |-> call.c,
                ret |-> select_optimal_method(call.c)]
    /\ UNCHANGED <<data, request, selected_maxima, selected_minima, results,
                   difference_results, data_stats, run, ncalls>>

InitSelect ==
    /\ Idle
    /\ data_stats = NoStats
    /\ ncalls = 0
    /\ \E c \in SelectCharacteristics : call = [fn |-> "characteristics", c |-> c]

NextSelect == SelectOptimalMethod

SpecSelect == InitSelect /\ [][NextSelect]_vars

----------------------------------------------------------------------------
(* Calls of the two constraint filters and of the refiner on arbitrary     *)
(* lists: entries may repeat an index and may come in any order.           *)

MaxCand == 3

RECURSIVE ListsOfLen(_, _)
ListsOfLen(entries, n) ==
    IF n = 0 THEN { << >> }
    ELSE { Append(l, e) : l \in ListsOfLen(entries, n - 1), e \in entries }

\* the pairs (minima, maxima) of lists over entries with at most n entries
\* in all
ListPairs(entries, n) ==
    UNION { UNION { ListsOfLen(entries, a) \X ListsOfLen(entries, b) :
                      b \in 0..(n - a) } : a \in 0..n }

FilterEntries == {0, 1} \X {-6, 4, 6}

MaxThresholds == {0, 6, -6}

MinThresholds == {4, -6, MinUnlimited}

CountLimits == { <<0, 0>>, <<1, 2>>, <<2, 1>>, <<1, 0>> }

\* the lists of the documented scenarios, as (minima, maxima)
ScenarioLists ==
    { << << >>, << <<1, 5>>, <<3, 6>>, <<5, 7>> >> >>,
      << << <<1, 5>>, <<3, 6>>, <<5, 7>> >>, << >> >> }

ApplyThresholdFilter ==
    /\ call.fn = "lists"
    /\ \E max_threshold \in MaxThresholds, min_threshold \in MinThresholds :
          call' = [fn |-> "apply_threshold_filter",
                   minima |-> call.minima, maxima |-> call.maxima,
                   max_threshold |-> max_threshold,
                   min_threshold |-> min_threshold,
                   ret |-> apply_threshold_filter(call.minima, call.maxima,
                                                  max_threshold, min_threshold)]
    /\ UNCHANGED <<data, request, selected_maxima, selected_minima, results,
                   difference_results, data_stats, run, ncalls>>

FilterResultsByCount ==
    /\ call.fn = "lists"
    /\ \E limits \in CountLimits, method \in Methods :
          call' = [fn |-> "filter_results_by_count",
                   minima |-> call.minima, maxima |-> call.maxima,
                   max_count_limit |-> limits[1],
                   min_count_limit |-> limits[2], method |-> method,
                   ret |-> filter_results_by_count(call.minima, call.maxima,
                                                   limits[1], limits[2], method)]
    /\ UNCHANGED <<data, request, selected_maxima, selected_minima, results,
                   difference_results, data_stats, run, ncalls>>

InitFilter ==
    /\ Idle
    /\ data_stats = NoStats
    /\ ncalls = 0
    /\ \E p \in ListPairs(FilterEntries, MaxCand) \cup ScenarioLists :
          call = [fn |-> "lists", minima |-> p[1], maxima |-> p[2]]

NextFilter == ApplyThresholdFilter \/ FilterResultsByCount

SpecFilter == InitFilter /\ [][NextFilter]_vars

\* sequences for the refiner: window radius 0 and 1 of the quality filter,
\* and a length for which the minimum distance is 3; a call names its
\* sequence by position in this tuple
RefineData ==
    << <<6, 4, 6, 9, 6, 4>>,
       <<6, 4, 6, 9, 6, 4, 6, 9, 6, 6, 4, 6>>,
       [k \in 1..300 |-> IF k % 3 = 2 THEN 4 ELSE 6] >>

RefineEntries == {0, 1, 2, 4} \X {4, 6}

\* noise_level as sqrt(num) / den: absent, zero, one unit, half a unit
RefineCharacteristics ==
    { [set |-> FALSE],
      [set |-> TRUE, noise_num |-> 0, noise_den |-> 1],
      [set |-> TRUE, noise_num |-> 1, noise_den |-> 1],
      [set |-> TRUE, noise_num |-> 1, noise_den |-> 2] }

PostProcessResults ==
    /\ call.fn = "candidates"
    /\ call' = [fn |-> "post_process_results", file |-> call.file,
                minima |-> call.minima, maxima |-> call.maxima,
                characteristics |-> call.characteristics,
                ret |-> post_process_results(call.minima, call.maxima,
                                             RefineData[call.file],
                                             call.characteristics)]
    /\ UNCHANGED <<data, request, selected_maxima, selected_minima, results,
                   difference_results, data_stats, run, ncalls>>

InitRefine ==
    /\ Idle
    /\ data_stats = NoStats
    /\ ncalls = 0
    /\ \E p \in ListPairs(RefineEntries, MaxCand), file \in DOMAIN RefineData,
          c \in RefineCharacteristics :
          call = [fn |-> "candidates", file |-> file, minima |-> p[1],
                  maxima |-> p[2], characteristics |-> c]

NextRefine == PostProcessResults

SpecRefine == InitRefine /\ [][NextRefine]_vars

\* the refiner applied to what it returned, with the same sequence and
\* characteristics
PostProcessAgain ==
    /\ call.fn = "post_process_results"
    /\ call' = [fn |-> "post_process_results_again", file |-> call.file,
                minima |-> call.ret[1], maxima |-> call.ret[2],
                characteristics |-> call.characteristics,
                candidates |-> <<call.minima, call.maxima>>,
                ret |-> post_process_results(call.ret[1], call.ret[2],
                                             RefineData[call.file],
                                             call.characteristics)]
    /\ UNCHANGED <<data, request, selected_maxima, selected_minima, results,
                   difference_results, data_stats, run, ncalls>>

NextRefineAgain == PostProcessResults \/ PostProcessAgain

SpecRefineAgain == InitRefine /\ [][NextRefineAgain]_vars

\* detection runs of the driver together with direct calls of the refiner
InitDetectAndRefine == Init \/ InitRefine

NextDetectAndRefine == Next \/ NextRefine

SpecDetectAndRefine == InitDetectAndRefine /\ [][NextDetectAndRefine]_vars

----------------------------------------------------------------------------
(* Manual mode: a file is loaded and points have been clicked; an entry of *)
(* a selection list is (index, x, y) of the clicked data point, with the   *)
(* index standing for x.                                                   *)

PairStride == 7

Selection(d, a) == <<a, a, At(d, a)>>

\* no selection or one selection, at any point
SingleSelections(d) ==
    { << >> } \cup { <<Selection(d, a)>> : a \in 0..(Len(d) - 1) }

\* two selections of one kind, at distinct points of a grid
GridSelections(d) ==
    LET grid == {i \in 0..(Len(d) - 1) : i % PairStride = 0}
    IN  { <<Selection(d, p[1]), Selection(d, p[2])>> :
            p \in {q \in grid \X grid : q[1] # q[2]} }

\* the pairs (selected_maxima, selected_minima) with at most two selections
SelectionLists(d) ==
    (SingleSelections(d) \X SingleSelections(d))
        \cup (GridSelections(d) \X { << >> })
        \cup ({ << >> } \X GridSelections(d))

ManualFiles == { <<4, 9, 6>> } \cup BlockSeqs(MaxBlocks)

ManualRequest == [DefaultRequest EXCEPT !.mode = "manual"]

InitManual ==
    /\ data \in ManualFiles
    /\ request = ManualRequest
    /\ \E sel \in SelectionLists(data) :
          /\ selected_maxima = sel[1]
          /\ selected_minima = sel[2]
    /\ results = NoResults
    /\ difference_results = << >>
    /\ data_stats = NoStats
    /\ run = NoRun
    /\ call = NoCall
    /\ ncalls = 0

SpecManual == InitManual /\ [][Next]_vars

----------------------------------------------------------------------------
(* The window from its construction on: loading files, switching between   *)
(* automatic and manual mode, clicking points, clearing the selection and  *)
(* running the analysis.  ncalls counts the clicks and clearings.          *)

MaxClicks == 3

\* the y columns of the files loaded; x is the position, as for a file
\* without an X column (parse_xy_data, lines 568-569).  A file without
\* values leaves self.data as it is (lines 589-591) and is left out.
SelectingFiles == { <<4, 9>>, <<6, 4, 9, 4>> }

\* variant of add_maximum that looks for the whole selection, not its index
add_maximum_same_point(selected, idx, x_val, y_val) ==
    IF \E k \in 1..Len(selected) : selected[k] = <<idx, x_val, y_val>>
    THEN selected
    ELSE Append(selected, <<idx, x_val, y_val>>)

\* the list self.selected_maxima after add_maximum(idx, x_val, y_val)
add_maximum(selected, idx, x_val, y_val) ==
    IF \E k \in 1..Len(selected) : selected[k][1] = idx
    THEN selected
    ELSE Append(selected, <<idx, x_val, y_val>>)

\* the list self.selected_minima after add_minimum(idx, x_val, y_val)
add_minimum(selected, idx, x_val, y_val) ==
    IF \E k \in 1..Len(selected) : selected[k][1] = idx
    THEN selected
    ELSE Append(selected, <<idx, x_val, y_val>>)

LoadFile ==
    /\ \E file \in SelectingFiles :
          /\ file # data
          /\ data' = file
    /\ UNCHANGED <<request, selected_maxima, selected_minima, results,
                   difference_results, data_stats, run, call, ncalls>>

\* the mode radio buttons: mode_var and, through toggle_mode,
\* interactive_mode
ToggleMode ==
    /\ request' = [request EXCEPT
                      !.mode = IF request.mode = "auto" THEN "manual" ELSE "auto"]
    /\ UNCHANGED <<data, selected_maxima, selected_minima, results,
                   difference_results, data_stats, run, call, ncalls>>

\* a click within the radius of the data point idx, with the left (1) or
\* the right (3) button
OnClick ==
    /\ request.mode = "manual"
    /\ data # << >>
    /\ ncalls < MaxClicks
    /\ \E idx \in 0..(Len(data) - 1), button \in {1, 3} :
          /\ call' = [fn |-> "on_click", button |-> button, idx |-> idx]
          /\ IF button = 1
             THEN /\ selected_maxima' =
                        add_maximum(selected_maxima, idx, idx, At(data, idx))
                  /\ UNCHANGED selected_minima
             ELSE /\ selected_minima' =
                        add_minimum(selected_minima, idx, idx, At(data, idx))
                  /\ UNCHANGED selected_maxima
    /\ ncalls' = ncalls + 1
    /\ UNCHANGED <<data, request, results, difference_results, data_stats, run>>

ClearSelections ==
    /\ ncalls < MaxClicks
    /\ selected_maxima' = << >>
    /\ selected_minima' = << >>
    /\ call' = [fn |-> "clear_selections"]
    /\ ncalls' = ncalls + 1
    /\ UNCHANGED <<data, request, results, difference_results, data_stats, run>>

InitSelecting ==
    /\ Idle
    /\ data_stats = NoStats
    /\ call = NoCall
    /\ ncalls = 0

NextSelecting ==
    \/ LoadFile
    \/ ToggleMode
    \/ OnClick
    \/ ClearSelections
    \/ RunAnalysis

SpecSelecting == InitSelecting /\ [][NextSelecting]_vars


----------------------------------------------------------------------------
(* Claims about analysis runs of the driver (specification Spec).          *)

AlternatingFamily == {"alternating", "enhanced", "strict"}

\* the two lists merged in index order never hold two neighbours of one kind
Alternates(minima, maxima) ==
    LET all == Tagged("min", minima) \o Tagged("max", maxima)
    IN  \A i, j \in 1..Len(all) :
            (all[i][1] = all[j][1] /\ all[i][2] < all[j][2])
                => \E k \in 1..Len(all) :
                      /\ all[k][1] # all[i][1]
                      /\ all[i][2] < all[k][2]
                      /\ all[k][2] < all[j][2]

(* C2: on a sequence of length >= 3, a detection run that is given both    *)
(* threshold and window_size, as the driver passes them, completes for     *)
(* each of the seven method choices.                                       *)
C2_EveryMethodCompletes ==
    (run.outcome \in {"ok", "error"} /\ run.mode = "auto" /\ Len(data) >= 3)
        => run.outcome = "ok"

(* C3: the lists a full detection run returns for alternating, enhanced or *)
(* strict, merged and ordered by index, alternate between the two kinds.   *)
C3_FamilyOutputAlternates ==
    (run.outcome = "ok" /\ run.mode = "auto" /\ run.selected \in AlternatingFamily)
        => Alternates(run.detected[1], run.detected[2])

(* C5: when the method choice is auto and the selector picks alternating,  *)
(* enhanced or strict, the count caps leave the lists as they were.        *)
C5_AutoFamilyNotTruncated ==
    (run.outcome = "ok" /\ run.mode = "auto" /\ request.method = "auto"
        /\ run.selected \in AlternatingFamily)
        => run.counted = run.thresholded

\* neighbours in a list are at least max(2, length div 100) indices apart
MinDistanceKept(lst, length) ==
    \A k \in 1..(Len(lst) - 1) :
        lst[k + 1][1] - lst[k][1] >= Max2(2, length \div 100)

(* C7: in the minima list and in the maxima list of a detection run, for   *)
(* every method, and in the lists the refiner returns for any candidates,  *)
(* neighbouring entries differ in index by at least                        *)
(* max(2, floor(length / 100)).                                            *)
C7_MinDistance ==
    /\ (run.outcome = "ok" /\ run.mode = "auto")
          => /\ MinDistanceKept(run.detected[1], Len(data))
             /\ MinDistanceKept(run.detected[2], Len(data))
    /\ call.fn = "post_process_results"
          => /\ MinDistanceKept(call.ret[1], Len(RefineData[call.file]))
             /\ MinDistanceKept(call.ret[2], Len(RefineData[call.file]))

\* a sequence long enough for a minimum distance of 3: a candidate two
\* indices after a kept one is gone, one three indices after it stays
C7_Witness ==
    /\ call.fn = "post_process_results"
    /\ Len(RefineData[call.file]) \div 100 = 3
    /\ \E k \in 1..Len(call.maxima) : call.maxima[k][1] = 2
    /\ \E k \in 1..(Len(call.ret[2]) - 1) :
          /\ call.ret[2][k][1] = 1
          /\ call.ret[2][k + 1][1] = 4

\* the number of entries of lst whose index is below that of e
Rank(lst, e) == Cardinality({k \in 1..Len(lst) : lst[k][1] < e[1]})

InList(lst, e) == \E k \in 1..Len(lst) : lst[k] = e

(* C9: the difference calculation yields min(#maxima, #minima) pairs; the  *)
(* i-th pair is numbered i, joins the maximum of i-th smallest index with  *)
(* the minimum of i-th smallest index, and its difference is the maximum's *)
(* value minus the minimum's value.                                        *)
C9_PairsByIndexOrder ==
    (results.set /\ difference_results # << >>)
        => /\ Len(difference_results)
                = Min2(Len(results.maxima), Len(results.minima))
           /\ \A i \in 1..Len(difference_results) :
                LET p == difference_results[i]
                    mx == <<p.max_index, p.max_value>>
                    mn == <<p.min_index, p.min_value>>
                IN  /\ p.pair_number = i
                    /\ InList(results.maxima, mx)
                    /\ InList(results.minima, mn)
                    /\ Rank(results.maxima, mx) = i - 1
                    /\ Rank(results.minima, mn) = i - 1
                    /\ p.difference = p.max_value - p.min_value

\* pairs computed from stored lists that are not in index order
C9_Witness ==
    /\ results.set
    /\ Len(difference_results) >= 2
    /\ \E lst \in {results.minima, results.maxima} :
       \E k \in 1..(Len(lst) - 1) : lst[k][1] > lst[k + 1][1]

----------------------------------------------------------------------------
(* Claims about the constraint filters (specification SpecFilter).         *)

(* C4: called with method alternating, enhanced or strict, the count       *)
(* filter returns the two lists it was given, same entries in the same     *)
(* order, for every pair of count limits.                                  *)
C4_FamilyExemptFromCount ==
    (call.fn = "filter_results_by_count" /\ call.method \in AlternatingFamily)
        => call.ret = <<call.minima, call.maxima>>

\* an exempt call whose maxima exceed a positive limit
C4_Witness ==
    /\ call.fn = "filter_results_by_count"
    /\ call.method = "strict"
    /\ call.max_count_limit > 0
    /\ Len(call.maxima) > call.max_count_limit
    /\ call.ret[2] = call.maxima

\* out holds exactly the entries of lst that satisfy Keep, in lst's order
KeptExactly(out, lst, Keep(_)) ==
    \E pos \in [1..Len(out) -> 1..Len(lst)] :
        /\ \A k \in 1..(Len(out) - 1) : pos[k] < pos[k + 1]
        /\ \A k \in 1..Len(out) : out[k] = lst[pos[k]]
        /\ \A j \in 1..Len(lst) : Keep(lst[j]) <=> \E k \in 1..Len(out) : pos[k] = j

(* C6: the threshold filter returns, when max_threshold > 0, exactly the   *)
(* maxima with value >= max_threshold in their original order and else the *)
(* maxima unchanged; when min_threshold < 999, exactly the minima with     *)
(* value <= min_threshold in their original order and else the minima      *)
(* unchanged.                                                              *)
C6_ThresholdFilterExact ==
    call.fn = "apply_threshold_filter"
        => /\ IF call.max_threshold > 0
              THEN KeptExactly(call.ret[2], call.maxima,
                               LAMBDA e : e[2] >= call.max_threshold)
              ELSE call.ret[2] = call.maxima
           /\ IF call.min_threshold < MinUnlimited
              THEN KeptExactly(call.ret[1], call.minima,
                               LAMBDA e : e[2] <= call.min_threshold)
              ELSE call.ret[1] = call.minima

\* both bounds active; a maximum equal to its bound stays, one below goes
C6_Witness ==
    /\ call.fn = "apply_threshold_filter"
    /\ call.max_threshold = 6
    /\ call.min_threshold = 4
    /\ \E k \in 1..Len(call.ret[2]) : call.ret[2][k][2] = 6
    /\ Len(call.ret[2]) < Len(call.maxima)
    /\ Len(call.ret[1]) < Len(call.minima)

----------------------------------------------------------------------------
(* Claims about the refiner (specification SpecRefine).                    *)

StrictlyIncreasing(lst) ==
    \A j, k \in 1..Len(lst) : j < k => lst[j][1] < lst[k][1]

(* C8: for any candidate lists, repeated or out-of-order indices included, *)
(* each list the refiner returns is strictly increasing by index, so no    *)
(* index occurs twice within one kind.                                     *)
C8_StrictlyIncreasing ==
    call.fn = "post_process_results"
        => StrictlyIncreasing(call.ret[1]) /\ StrictlyIncreasing(call.ret[2])

\* candidate maxima that repeat an index and descend, refined to two entries
C8_Witness ==
    /\ call.fn = "post_process_results"
    /\ Len(call.maxima) = 3
    /\ call.maxima[1][1] = 4
    /\ call.maxima[2][1] = 0
    /\ call.maxima[3][1] = 4
    /\ Len(call.ret[2]) = 2

----------------------------------------------------------------------------
(* Claims about the manual snap (specification SpecManual).                *)

SnapLo(a) == Max2(0, a - 10)

SnapHi(a) == Min2(Len(data) - 1, a + 10)

WindowValues(a) == {At(data, i) : i \in SnapLo(a)..SnapHi(a)}

\* r is a legitimate answer for the approximate index a; sign is 1 for a
\* maximum and -1 for a minimum
SnapsTo(r, a, sign) ==
    /\ SnapLo(a) <= r[1]
    /\ r[1] <= SnapHi(a)
    /\ \A v \in WindowValues(a) : sign * v <= sign * r[2]
    /\ r[2] \in WindowValues(a)

(* C10: for every sequence and every valid approximate index a, the manual *)
(* snap returns an index r with max(0, a-10) <= r <= min(length-1, a+10)   *)
(* and a value equal to the maximum (kind max) or minimum (kind min) of    *)
(* the sequence over that whole window.                                    *)
C10_SnapWithinWindow ==
    (run.outcome = "ok" /\ run.mode = "manual")
        => /\ \A k \in 1..Len(run.sel_maxima) :
                \E j \in 1..Len(run.detected[2]) :
                    SnapsTo(run.detected[2][j], run.sel_maxima[k][1], 1)
           /\ \A k \in 1..Len(run.sel_minima) :
                \E j \in 1..Len(run.detected[1]) :
                    SnapsTo(run.detected[1][j], run.sel_minima[k][1], -1)
           /\ \A j \in 1..Len(run.detected[2]) :
                \E k \in 1..Len(run.sel_maxima) :
                    SnapsTo(run.detected[2][j], run.sel_maxima[k][1], 1)
           /\ \A j \in 1..Len(run.detected[1]) :
                \E k \in 1..Len(run.sel_minima) :
                    SnapsTo(run.detected[1][j], run.sel_minima[k][1], -1)

\* the window's only minimum sits on its last position
C10_Witness ==
    /\ run.outcome = "ok"
    /\ run.mode = "manual"
    /\ Len(run.sel_minima) = 1
    /\ run.detected[1] = << <<run.sel_minima[1][1] + 10, -1>> >>
    /\ Len(run.detected[2]) = 1

\* the maximum (sign 1) or minimum (sign -1) of the window of a
WindowBest(a, sign) ==
    LET vals == WindowValues(a)
    IN  CHOOSE v \in vals : \A w \in vals : sign * w <= sign * v

\* the positions of the window of a that hold that value
Holders(a, sign) ==
    LET best == WindowBest(a, sign)
    IN  {i \in SnapLo(a)..SnapHi(a) : At(data, i) = best}

SmallestHolder(a, sign) ==
    LET holders == Holders(a, sign)
    IN  CHOOSE i \in holders : \A j \in holders : i <= j

\* the selected position when it holds the extremum, else the smallest holder
SelectedOrSmallestHolder(a, sign) ==
    IF At(data, a) = WindowBest(a, sign) THEN a ELSE SmallestHolder(a, sign)

\* found is what the selections snap to when each goes to Target(a)
SnappedTo(found, selected, Target(_)) ==
    LET targets == [k \in 1..Len(selected) |-> Target(selected[k][1])]
    IN  /\ \A k \in 1..Len(selected) :
              \E j \in 1..Len(found) :
                  found[j] = <<targets[k], At(data, targets[k])>>
        /\ \A j \in 1..Len(found) :
              \E k \in 1..Len(selected) : found[j][1] = targets[k]

(* C20, as claimed: when several positions of the window share its maximum *)
(* (kind max) or minimum (kind min), the manual snap returns the smallest  *)
(* such index.                                                             *)
C20_SnapTakesSmallestIndex ==
    (run.outcome = "ok" /\ run.mode = "manual")
        => /\ SnappedTo(run.detected[2], run.sel_maxima,
                        LAMBDA a : SmallestHolder(a, 1))
           /\ SnappedTo(run.detected[1], run.sel_minima,
                        LAMBDA a : SmallestHolder(a, -1))

(* C20, amended: the manual snap returns the selected index itself when    *)
(* that position holds the window's maximum (kind max) or minimum (kind    *)
(* min), and otherwise the smallest index of the window that holds it.     *)
C20_SnapKeepsSelectedOnTie ==
    (run.outcome = "ok" /\ run.mode = "manual")
        => /\ SnappedTo(run.detected[2], run.sel_maxima,
                        LAMBDA a : SelectedOrSmallestHolder(a, 1))
           /\ SnappedTo(run.detected[1], run.sel_minima,
                        LAMBDA a : SelectedOrSmallestHolder(a, -1))

\* the selected maximum ties with an earlier position and is kept; the
\* selected minimum is above the window's minimum, which two positions hold,
\* and the earlier one is returned
C20_Witness ==
    /\ run.outcome = "ok"
    /\ run.mode = "manual"
    /\ Len(run.sel_maxima) = 1
    /\ Len(run.sel_minima) = 1
    /\ run.sel_maxima[1][1] \in Holders(run.sel_maxima[1][1], 1)
    /\ SmallestHolder(run.sel_maxima[1][1], 1) < run.sel_maxima[1][1]
    /\ run.detected[2][1][1] = run.sel_maxima[1][1]
    /\ run.sel_minima[1][1] \notin Holders(run.sel_minima[1][1], -1)
    /\ Cardinality(Holders(run.sel_minima[1][1], -1)) >= 2
    /\ run.detected[1][1][1] = SmallestHolder(run.sel_minima[1][1], -1)

----------------------------------------------------------------------------
(* Claims about the refiner applied twice (specification SpecRefineAgain). *)

(* C11: the refiner is idempotent: applied to its own output, with the     *)
(* same sequence and characteristics, it returns that output unchanged.    *)
C11_RefinerIdempotent ==
    call.fn = "post_process_results_again"
        => call.ret = <<call.minima, call.maxima>>

\* a first pass that removed candidates of both kinds (a repeated index, a
\* close neighbour or a low-quality entry) and left something of each kind
C11_Witness ==
    /\ call.fn = "post_process_results_again"
    /\ call.characteristics.set
    /\ call.characteristics.noise_num > 0
    /\ Len(call.minima) >= 1
    /\ Len(call.maxima) >= 1
    /\ Len(call.minima) + Len(call.maxima)
          < Len(call.candidates[1]) + Len(call.candidates[2])
    /\ call.minima # call.maxima

----------------------------------------------------------------------------
(* Claims about the count filter (specification SpecFilter).               *)

\* out is the first n entries of lst in order of descending |value|, entries
\* of equal |value| in their order in lst: position j of lst comes before
\* position i when Before(j, i)
FirstByAbs(out, lst, n) ==
    LET Before(j, i) == \/ Abs(lst[j][2]) > Abs(lst[i][2])
                        \/ (Abs(lst[j][2]) = Abs(lst[i][2]) /\ j < i)
    IN  /\ Len(out) = n
        /\ \E pos \in [1..n -> 1..Len(lst)] :
              /\ \A k \in 1..n : out[k] = lst[pos[k]]
              /\ \A k \in 1..(n - 1) : Before(pos[k], pos[k + 1])
              /\ \A j \in 1..Len(lst) :
                    (\A k \in 1..n : pos[k] # j)
                        => \A k \in 1..n : Before(pos[k], j)

CountRule(out, lst, limit) ==
    IF limit > 0 /\ Len(lst) > limit
    THEN FirstByAbs(out, lst, limit)
    ELSE out = lst

(* C12: for a method outside alternating, enhanced, strict, the count      *)
(* filter returns, when the maxima limit is positive and exceeded, the     *)
(* first limit maxima in order of descending |value|, entries of equal     *)
(* |value| in their original order, and else the maxima unchanged; the     *)
(* same for minima with their limit; limit 1 on [(1,5),(3,6),(5,7)] gives  *)
(* [(5,7)].                                                                *)
C12_CountFilterTopByAbs ==
    (call.fn = "filter_results_by_count" /\ call.method \notin AlternatingFamily)
        => /\ CountRule(call.ret[2], call.maxima, call.max_count_limit)
           /\ CountRule(call.ret[1], call.minima, call.min_count_limit)
           /\ (call.maxima = << <<1, 5>>, <<3, 6>>, <<5, 7>> >>
                 /\ call.max_count_limit = 1)
                 => call.ret[2] = << <<5, 7>> >>
           /\ (call.minima = << <<1, 5>>, <<3, 6>>, <<5, 7>> >>
                 /\ call.min_count_limit = 1)
                 => call.ret[1] = << <<5, 7>> >>

\* the documented scenario: limit 1 on [(1,5),(3,6),(5,7)] with method simple
C12_Witness ==
    /\ call.fn = "filter_results_by_count"
    /\ call.method = "simple"
    /\ call.max_count_limit = 1
    /\ call.maxima = << <<1, 5>>, <<3, 6>>, <<5, 7>> >>
    /\ call.ret[2] = << <<5, 7>> >>

----------------------------------------------------------------------------
(* Claims about the Simple strategy (specification SpecSimple).            *)

\* the positions of lst that hold index i
Holding(lst, i) == {k \in 1..Len(lst) : lst[k][1] = i}

\* lst reports exactly the indices that satisfy Is, each once, in ascending
\* order and with the value the sequence v has there
ReportsExactly(lst, v, Is(_)) ==
    /\ \A i \in 0..(Len(v) - 1) :
          Cardinality(Holding(lst, i)) = IF Is(i) THEN 1 ELSE 0
    /\ \A k \in 1..Len(lst) :
          /\ lst[k][1] \in 0..(Len(v) - 1)
          /\ lst[k][2] = At(v, lst[k][1])
    /\ \A k \in 1..(Len(lst) - 1) : lst[k][1] < lst[k + 1][1]

SimpleMax(v, t, i) ==
    /\ 1 <= i
    /\ i <= Len(v) - 2
    /\ At(v, i) > At(v, i - 1) + t
    /\ At(v, i) >= At(v, i + 1) - t

SimpleMin(v, t, i) ==
    /\ 1 <= i
    /\ i <= Len(v) - 2
    /\ ~SimpleMax(v, t, i)
    /\ At(v, i) < At(v, i - 1) - t
    /\ At(v, i) <= At(v, i + 1) + t

(* C13: the Simple strategy with tolerance t reports interior index i as a *)
(* maximum exactly when v[i] > v[i-1]+t and v[i] >= v[i+1]-t, otherwise as *)
(* a minimum exactly when v[i] < v[i-1]-t and v[i] <= v[i+1]+t, and        *)
(* nothing else; [0,5,1,6,2,7,0] gives minima [(2,1),(4,2)] and maxima     *)
(* [(1,5),(3,6),(5,7)], and a constant sequence gives no extrema.          *)
C13_SimpleRule ==
    call.fn = "_detect_simple"
        => /\ ReportsExactly(call.ret[2], call.d,
                             LAMBDA i : SimpleMax(call.d, call.threshold, i))
           /\ ReportsExactly(call.ret[1], call.d,
                             LAMBDA i : SimpleMin(call.d, call.threshold, i))
           /\ (call.d = <<0, 100, 20, 120, 40, 140, 0>> /\ call.threshold = 0)
                 => call.ret = << << <<2, 20>>, <<4, 40>> >>,
                                  << <<1, 100>>, <<3, 120>>, <<5, 140>> >> >>
           /\ (\A k \in 1..Len(call.d) : call.d[k] = call.d[1])
                 => call.ret = << << >>, << >> >>

\* the documented sequence with the default tolerance
C13_Witness ==
    /\ call.fn = "_detect_simple"
    /\ call.d = <<0, 100, 20, 120, 40, 140, 0>>
    /\ call.threshold = 0
    /\ Len(call.ret[1]) = 2
    /\ Len(call.ret[2]) = 3

----------------------------------------------------------------------------
(* Claims about select_optimal_method (specification SpecSelect).          *)

\* characteristics.get(key, default)
Get(c, key, default) == IF key \in DOMAIN c THEN c[key] ELSE default

\* extrema_density > num / den
DensityOver(c, num, den) ==
    den * Get(c, "estimated_extrema_count", 0) > num * Get(c, "length", 1)

\* noise_level > std_val * 0.1, both sides squared
NoiseOverTenthOfStd(c) ==
    100 * Get(c, "noise_num", 0) * Get(c, "length", 1) * Get(c, "length", 1)
        > Get(c, "std_num", 0) * Get(c, "noise_den", 1) * Get(c, "noise_den", 1)

\* variability < 0.1, where variability is std_val / range_val, or 0 when
\* range_val is 0
VariabilityUnderTenth(c) ==
    Get(c, "range_val", 0) > 0
        => 100 * Get(c, "std_num", 0)
             < Get(c, "range_val", 0) * Get(c, "range_val", 0)
                 * Get(c, "length", 1) * Get(c, "length", 1)

\* the rows of the decision table, top to bottom
TableRows(c) ==
    << <<Get(c, "length", 0) < 10, "simple">>,
       <<Get(c, "is_oscillatory", FALSE) /\ DensityOver(c, 1, 10), "alternating">>,
       <<Get(c, "has_plateaus", FALSE), "window">>,
       <<NoiseOverTenthOfStd(c), "enhanced">>,
       <<DensityOver(c, 1, 5), "strict">>,
       <<VariabilityUnderTenth(c), "slope">>,
       <<TRUE, "enhanced">> >>

FirstMatch(rows) ==
    CHOOSE k \in 1..Len(rows) : rows[k][1] /\ \A j \in 1..(k - 1) : ~rows[j][1]

(* C14: select_optimal_method returns the name of the first row of the     *)
(* table (length < 10: simple; oscillatory and density > 0.1: alternating; *)
(* plateaus: window; noise > std * 0.1: enhanced; density > 0.2: strict;   *)
(* variability < 0.1: slope; otherwise enhanced) whose condition holds,    *)
(* whatever later rows also hold, and always one of the six names.         *)
C14_FirstMatchWins ==
    call.fn = "select_optimal_method"
        => /\ call.ret = TableRows(call.c)[FirstMatch(TableRows(call.c))][2]
           /\ call.ret \in StrategyNames

\* the oscillation row wins although the plateau, noise, density and
\* variability rows hold too
C14_Witness ==
    /\ call.fn = "select_optimal_method"
    /\ call.ret = "alternating"
    /\ \A k \in 2..6 : TableRows(call.c)[k][1]

----------------------------------------------------------------------------
(* Claims about detect_extrema (specification SpecDetect).                 *)

\* the enhanced strategy with the keywords of the call, then the refiner
EnhancedThenRefined(d, kwargs) ==
    IF Len(d) < 3 THEN << << >>, << >> >>
    ELSE LET found == detect_enhanced(d, Arg(kwargs, "threshold", DefaultThreshold))
         IN  post_process_results(found[1], found[2], d,
                                  analyze_data_characteristics(d))

(* C15: a detection run whose method value is neither absent nor one of    *)
(* the six strategy names does not raise and returns exactly what the      *)
(* enhanced strategy followed by the refiner returns for the same sequence *)
(* and keywords.                                                           *)
C15_UnknownMethodIsEnhanced ==
    (call.fn = "detect_extrema" /\ call.method \notin StrategyNames \cup {NoMethod})
        => /\ ~call.raised
           /\ call.ret = EnhancedThenRefined(call.d, call.kwargs)

\* an unknown name on a sequence where the enhanced strategy finds extrema
C15_Witness ==
    /\ call.fn = "detect_extrema"
    /\ call.method = "unknown"
    /\ Len(call.d) >= 3
    /\ DOMAIN call.kwargs = {"threshold", "window_size"}
    /\ call.ret # << << >>, << >> >>

\* the record get_detection_info exposes is the empty dictionary or one whose
\* entries are zero
EmptyOrZeroed(stats) ==
    ~stats.set
        \/ /\ stats.length = 0
           /\ stats.std_num = 0
           /\ stats.range_val = 0
           /\ stats.noise_num = 0
           /\ stats.estimated_extrema_count = 0

(* C16: after a detection run on a sequence of length < 3 the              *)
(* characteristics record of the detector is empty or zeroed, whatever     *)
(* runs the same detector executed before.                                 *)
C16_ShortRunLeavesNoStats ==
    (call.fn = "detect_extrema" /\ Len(call.d) < 3) => EmptyOrZeroed(data_stats)

\* the same call on a detector that has run nothing before
OnFreshDetector(c) == detect_extrema(c.d, c.method, c.kwargs, NoStats)

(* C18: what detect_extrema returns (the two lists, or the failure)        *)
(* depends only on the sequence, the method and the keywords of the call:  *)
(* a detector with cached characteristics of an earlier run returns what a *)
(* fresh detector returns for the same call.                               *)
C18_ResultIndependentOfHistory ==
    call.fn = "detect_extrema"
        => /\ call.raised = OnFreshDetector(call).raised
           /\ call.ret = OnFreshDetector(call).ret

\* an automatic run that finds extrema on a detector whose cached
\* characteristics are those of another sequence
C18_Witness ==
    /\ call.fn = "detect_extrema"
    /\ call.method = NoMethod
    /\ call.stats_before.set
    /\ call.stats_before.length # Len(call.d)
    /\ call.ret # << << >>, << >> >>

\* every entry of lst is a position of the sequence v with the value there
EntriesOfSequence(lst, v) ==
    \A k \in 1..Len(lst) :
        /\ 0 <= lst[k][1]
        /\ lst[k][1] <= Len(v) - 1
        /\ lst[k][2] = v[lst[k][1] + 1]

(* C19: every (index, value) entry a detection run returns, whichever of   *)
(* the six strategies ran, has 0 <= index <= len(sequence) - 1 and value   *)
(* equal to sequence[index].                                               *)
C19_EntriesAreSequencePoints ==
    call.fn = "detect_extrema"
        => /\ EntriesOfSequence(call.ret[1], call.d)
           /\ EntriesOfSequence(call.ret[2], call.d)

\* a run of the slope strategy that returns a minimum and a maximum
C19_Witness ==
    /\ call.fn = "detect_extrema"
    /\ call.method = "slope"
    /\ call.ret[1] # << >>
    /\ call.ret[2] # << >>

----------------------------------------------------------------------------
(* Claims about a session of the driver (specification SpecSession).       *)

\* pairs is what the difference calculation yields for these two lists
ComputedFrom(pairs, maxima, minima) ==
    /\ Len(pairs) = Min2(Len(maxima), Len(minima))
    /\ \A i \in 1..Len(pairs) :
          /\ InList(maxima, <<pairs[i].max_index, pairs[i].max_value>>)
          /\ InList(minima, <<pairs[i].min_index, pairs[i].min_value>>)
          /\ Rank(maxima, <<pairs[i].max_index, pairs[i].max_value>>) = i - 1
          /\ Rank(minima, <<pairs[i].min_index, pairs[i].min_value>>) = i - 1

(* C17: after any sequence of run-analysis, calculate-differences and      *)
(* clear-results operations, a non-empty stored list of difference pairs   *)
(* was computed from the result lists stored now, never from those of an   *)
(* earlier run.                                                            *)
C17_PairsFromCurrentResults ==
    difference_results # << >>
        => /\ results.set
           /\ ComputedFrom(difference_results, results.maxima, results.minima)

----------------------------------------------------------------------------
(* Claims about the raw output of the Alternating, Enhanced and Strict     *)
(* strategies (specification SpecFamily).                                  *)

FamilyCalls == {"_detect_alternating", "_detect_enhanced", "_detect_strict"}

\* the entries of the two returned lists with their kind: <<kind, idx, val>>
Accepted(ret) ==
    {<<"min", ret[1][k][1], ret[1][k][2]>> : k \in 1..Len(ret[1])}
        \cup {<<"max", ret[2][k][1], ret[2][k][2]>> : k \in 1..Len(ret[2])}

\* b follows a in index order with no accepted entry between them
Consecutive(a, b, accepted) ==
    /\ a[2] < b[2]
    /\ \A c \in accepted : ~(a[2] < c[2] /\ c[2] < b[2])

(* C21: the raw output of the Alternating, Enhanced and Strict strategies, *)
(* merged and read in index order, strictly alternates in kind: no two     *)
(* entries share an index and consecutive entries differ in kind.          *)
C21_RawFamilyAlternates ==
    call.fn \in FamilyCalls
        => LET accepted == Accepted(call.ret)
           IN  \A a \in accepted : \A b \in accepted :
                  /\ (a[2] = b[2] => a = b)
                  /\ (Consecutive(a, b, accepted) => a[1] # b[1])

\* position i (from 0) passes the 5-point maximum test of Alternating
Peak5(d, t, i) ==
    /\ 2 <= i
    /\ i <= Len(d) - 3
    /\ \A j \in {i - 2, i - 1, i + 1, i + 2} : d[i + 1] > d[j + 1] + t

\* two peaks pass the test with no returned minimum between them: the first
\* is returned, the second is not, and a later minimum is returned
C21_Witness ==
    /\ call.fn = "_detect_alternating"
    /\ \E i \in 0..(Len(call.d) - 1) : \E j \in (i + 1)..(Len(call.d) - 1) :
          /\ Peak5(call.d, call.threshold, i)
          /\ Peak5(call.d, call.threshold, j)
          /\ \E k \in 1..Len(call.ret[2]) : call.ret[2][k][1] = i
          /\ \A k \in 1..Len(call.ret[2]) : call.ret[2][k][1] # j
          /\ \E k \in 1..Len(call.ret[1]) : call.ret[1][k][1] > j

\* the factor of the value margin in each acceptance loop
MarginFactor(fn) ==
    CASE fn = "_detect_alternating" -> 1
      [] fn = "_detect_enhanced" -> 2
      [] fn = "_detect_strict" -> 3

(* C22: in the raw index-ordered output of an alternating-family strategy  *)
(* every maximum after the first entry exceeds the entry before it (a      *)
(* minimum) by more than k * threshold and every minimum after the first   *)
(* entry lies below the entry before it (a maximum) by more than           *)
(* k * threshold; k is 1 for Alternating, 2 for Enhanced, 3 for Strict.    *)
C22_FamilyValueMargin ==
    call.fn \in FamilyCalls
        => LET accepted == Accepted(call.ret)
               margin == MarginFactor(call.fn) * call.threshold
           IN  \A a \in accepted : \A b \in accepted :
                  Consecutive(a, b, accepted)
                      => /\ (b[1] = "max" => b[3] > a[3] + margin)
                         /\ (b[1] = "min" => b[3] < a[3] - margin)

\* position i (from 0) passes the 7-point maximum test of Enhanced and Strict
Peak7(d, i) ==
    /\ 3 <= i
    /\ i <= Len(d) - 4
    /\ \A j \in (i - 3)..(i + 3) : j # i => d[j + 1] < d[i + 1]

\* Enhanced with threshold 0.15 returns a minimum and a later maximum, and
\* leaves out a peak that is far enough from a returned minimum but exceeds
\* it by no more than 2 * threshold
C22_Witness ==
    /\ call.fn = "_detect_enhanced"
    /\ call.threshold = 3
    /\ \E k \in 1..Len(call.ret[1]) : \E n \in 1..Len(call.ret[2]) :
          call.ret[1][k][1] < call.ret[2][n][1]
    /\ \E k \in 1..Len(call.ret[1]) : \E j \in 0..(Len(call.d) - 1) :
          /\ Peak7(call.d, j)
          /\ j - call.ret[1][k][1] >= 2
          /\ call.d[j + 1] > call.ret[1][k][2]
          /\ call.d[j + 1] <= call.ret[1][k][2] + 6
          /\ \A n \in 1..Len(call.ret[2]) : call.ret[2][n][1] # j

\* position i (from 0) passes the 7-point minimum test of Enhanced and Strict
Valley7(d, i) ==
    /\ 3 <= i
    /\ i <= Len(d) - 4
    /\ \A j \in (i - 3)..(i + 3) : j # i => d[j + 1] > d[i + 1]

\* ten times the ceiling of the minima: 0.4 for Strict, and
\* min(0.4, minVal + 0.3 * range) for Enhanced
Ceiling10(fn, d) ==
    LET lo == CHOOSE v \in {d[k] : k \in 1..Len(d)} : \A k \in 1..Len(d) : v <= d[k]
        hi == CHOOSE v \in {d[k] : k \in 1..Len(d)} : \A k \in 1..Len(d) : v >= d[k]
    IN  IF fn = "_detect_strict" \/ 80 <= 10 * lo + 3 * (hi - lo)
        THEN 80
        ELSE 10 * lo + 3 * (hi - lo)

\* the first candidate in index order: a 7-point maximum, or a 7-point
\* minimum that meets the ceiling
IsCandidate(fn, d, i) ==
    Peak7(d, i) \/ (Valley7(d, i) /\ 10 * d[i + 1] <= Ceiling10(fn, d))

(* C23: every minimum the Strict strategy returns is <= 0.4 and every      *)
(* minimum the Enhanced strategy returns is <= min(0.4, minVal +           *)
(* 0.3 * range), a minimum accepted first included; a maximum that is the  *)
(* first candidate is returned whatever its value.                         *)
C23_MinimumCeiling ==
    call.fn \in {"_detect_enhanced", "_detect_strict"}
        => /\ \A k \in 1..Len(call.ret[1]) :
                 10 * call.ret[1][k][2] <= Ceiling10(call.fn, call.d)
           /\ \A i \in 0..(Len(call.d) - 1) :
                 (/\ Peak7(call.d, i)
                  /\ \A j \in 0..(i - 1) : ~IsCandidate(call.fn, call.d, j))
                     => \E k \in 1..Len(call.ret[2]) :
                           call.ret[2][k] = <<i, call.d[i + 1]>>

\* Enhanced leaves out a valley at 0.3, which is under 0.4 but above the
\* ceiling derived from the range, returns a deeper minimum, and starts
\* with a maximum
C23_Witness ==
    /\ call.fn = "_detect_enhanced"
    /\ \E j \in 0..(Len(call.d) - 1) :
          /\ Valley7(call.d, j)
          /\ call.d[j + 1] <= 8
          /\ 10 * call.d[j + 1] > Ceiling10(call.fn, call.d)
          /\ \A k \in 1..Len(call.ret[1]) : call.ret[1][k][1] # j
    /\ call.ret[1] # << >>
    /\ call.ret[2] # << >>
    /\ call.ret[2][1][1] < call.ret[1][1][1]

\* the least index distance between consecutive accepted extrema
MinGap(fn) == IF fn = "_detect_strict" THEN 3 ELSE 2

(* C24: in the raw index-ordered output of Enhanced every two consecutive  *)
(* entries are at least 2 indices apart, in that of Strict at least 3; a   *)
(* candidate of the opposite kind closer than that to an accepted entry is *)
(* left out and the accepted entry stays.                                  *)
C24_FamilyIndexGap ==
    call.fn \in {"_detect_enhanced", "_detect_strict"}
        => LET accepted == Accepted(call.ret)
           IN  \A a \in accepted : \A b \in accepted :
                  Consecutive(a, b, accepted) => b[2] - a[2] >= MinGap(call.fn)

\* Strict returns a maximum, leaves out a candidate minimum two indices
\* after it that is deep enough to be accepted, and returns a later minimum
C24_Witness ==
    /\ call.fn = "_detect_strict"
    /\ \E k \in 1..Len(call.ret[2]) :
          LET j == call.ret[2][k][1] + 2
          IN  /\ IsCandidate(call.fn, call.d, j)
              /\ Valley7(call.d, j)
              /\ call.d[j + 1] < call.ret[2][k][2] - 3 * call.threshold
              /\ \A n \in 1..Len(call.ret[1]) : call.ret[1][n][1] # j
              /\ \E n \in 1..Len(call.ret[1]) : call.ret[1][n][1] > j

\* the values at the 0-based positions within r of idx, r being 3 or a tenth
\* of the length, whichever is smaller
QualityWindow(d, idx) ==
    LET r == IF Len(d) \div 10 < 3 THEN Len(d) \div 10 ELSE 3
    IN  {d[j + 1] : j \in {j \in 0..(Len(d) - 1) : j >= idx - r /\ j <= idx + r}}

\* x <= 2 * sqrt(num) / den
WithinTwiceNoise(x, num, den) == x <= 0 \/ (x * den) * (x * den) <= 4 * num

PassesQuality(e, d, c, is_minimum) ==
    IF is_minimum
    THEN \E lo \in QualityWindow(d, e[1]) :
            /\ \A v \in QualityWindow(d, e[1]) : lo <= v
            /\ WithinTwiceNoise(e[2] - lo, c.noise_num, c.noise_den)
    ELSE \E hi \in QualityWindow(d, e[1]) :
            /\ \A v \in QualityWindow(d, e[1]) : hi >= v
            /\ WithinTwiceNoise(hi - e[2], c.noise_num, c.noise_den)

\* kept holds exactly the entries of spaced that pass, in the order of spaced
KeptByQuality(kept, spaced, d, c, is_minimum) ==
    \E pos \in [1..Len(kept) -> 1..Len(spaced)] :
       /\ \A k \in 1..Len(kept) : kept[k] = spaced[pos[k]]
       /\ \A k \in 1..(Len(kept) - 1) : pos[k] < pos[k + 1]
       /\ \A n \in 1..Len(spaced) :
             (\E k \in 1..Len(kept) : pos[k] = n)
                <=> PassesQuality(spaced[n], d, c, is_minimum)

(* C25: the refiner applies the quality filter only when the noise level   *)
(* is positive; it then keeps, of the entries that survived deduplication  *)
(* and spacing, exactly the minima whose value is at most the least value  *)
(* within min(3, length div 10) positions plus twice the noise level and   *)
(* exactly the maxima whose value is at least the greatest such value less *)
(* twice the noise level, in their order; otherwise it returns the spaced  *)
(* lists as they are.                                                      *)
C25_QualityFilter ==
    call.fn = "post_process_results"
        => LET d == RefineData[call.file]
               c == call.characteristics
               min_distance == Max2(2, Len(d) \div 100)
               spaced_min == remove_close_extrema(dedup_sorted(call.minima), min_distance)
               spaced_max == remove_close_extrema(dedup_sorted(call.maxima), min_distance)
           IN  IF c.set /\ c.noise_num > 0
               THEN /\ KeptByQuality(call.ret[1], spaced_min, d, c, TRUE)
                    /\ KeptByQuality(call.ret[2], spaced_max, d, c, FALSE)
               ELSE call.ret = <<spaced_min, spaced_max>>

\* with a positive noise level the filter drops a spaced minimum and a spaced
\* maximum and keeps another minimum
C25_Witness ==
    /\ call.fn = "post_process_results"
    /\ call.characteristics.set
    /\ call.characteristics.noise_num > 0
    /\ LET d == RefineData[call.file]
           min_distance == Max2(2, Len(d) \div 100)
           spaced_min == remove_close_extrema(dedup_sorted(call.minima), min_distance)
           spaced_max == remove_close_extrema(dedup_sorted(call.maxima), min_distance)
       IN  /\ call.ret[1] # << >> /\ Len(call.ret[1]) < Len(spaced_min)
           /\ Len(call.ret[2]) < Len(spaced_max)

\* the 0-based positions the Window strategy examines
Eligible(d, w) == {i \in 0..(Len(d) - 1) : i >= w /\ i <= Len(d) - 1 - w}

\* the values in the left and right windows of position i
SideValues(d, w, i) ==
    {d[j + 1] : j \in {j \in 0..(Len(d) - 1) : j # i /\ j >= i - w /\ j <= i + w}}

WindowMax(d, w, i) == i \in Eligible(d, w) /\ \A v \in SideValues(d, w, i) : d[i + 1] >= v

WindowMin(d, w, i) ==
    /\ i \in Eligible(d, w)
    /\ ~WindowMax(d, w, i)
    /\ \A v \in SideValues(d, w, i) : d[i + 1] <= v

\* the positions a result list names, which carries the sequence's values
Reported(lst) == {lst[k][1] : k \in 1..Len(lst)}

(* C26: the Window strategy reports position i of windowSize..len-1-       *)
(* windowSize as a maximum exactly when its value is at least every value  *)
(* of its two side windows and as a minimum exactly when it is not a       *)
(* maximum and its value is at most every such value, each once, in index  *)
(* order and with the value of the sequence; a constant sequence yields    *)
(* every eligible position as a maximum and no minimum.                    *)
C26_WindowExact ==
    call.fn = "_detect_window"
        => LET d == call.d
               w == call.window_size
           IN  /\ Reported(call.ret[2]) = {i \in 0..(Len(d) - 1) : WindowMax(d, w, i)}
               /\ Reported(call.ret[1]) = {i \in 0..(Len(d) - 1) : WindowMin(d, w, i)}
               /\ \A s \in {call.ret[1], call.ret[2]} :
                     /\ \A k \in 1..Len(s) : s[k][2] = d[s[k][1] + 1]
                     /\ \A k \in 1..(Len(s) - 1) : s[k][1] < s[k + 1][1]
               /\ (\A j \in 1..Len(d) : d[j] = d[1])
                     => /\ call.ret[1] = << >>
                        /\ Reported(call.ret[2]) = Eligible(d, w)

\* a position tied with all its window neighbours is reported as a maximum
\* in a run that also reports a minimum
C26_Witness ==
    /\ call.fn = "_detect_window"
    /\ call.ret[1] # << >>
    /\ \E i \in Reported(call.ret[2]) :
          SideValues(call.d, call.window_size, i) = {call.d[i + 1]}

----------------------------------------------------------------------------
(* Claims about the selections and the manual results of the window.       *)

\* no two positions of the list hold the same entry, nor the same index
NoRepeat(lst) ==
    \A i \in 1..Len(lst) : \A j \in 1..Len(lst) :
        i # j => (lst[i] # lst[j] /\ lst[i][1] # lst[j][1])

(* C27: the lists a manual run returns hold no (index, value) pair twice   *)
(* and no index twice within one kind, and hold at most as many maxima     *)
(* (minima) as there are selected maxima (minima).                         *)
C27_ManualResultsDistinct ==
    (run.outcome = "ok" /\ run.mode = "manual")
        => /\ NoRepeat(run.detected[1])
           /\ NoRepeat(run.detected[2])
           /\ Len(run.detected[1]) <= Len(run.sel_minima)
           /\ Len(run.detected[2]) <= Len(run.sel_maxima)
           /\ results.set => /\ results.minima = run.detected[1]
                              /\ results.maxima = run.detected[2]

\* two selected maxima at different points snap to one maximum
C27_Witness ==
    /\ run.outcome = "ok"
    /\ run.mode = "manual"
    /\ Len(run.sel_maxima) = 2
    /\ run.sel_maxima[1][1] # run.sel_maxima[2][1]
    /\ Len(run.detected[2]) = 1

\* the indices of a list of selections
SelectedIndices(selected) == {selected[k][1] : k \in 1..Len(selected)}

DistinctIndices(selected) == Cardinality(SelectedIndices(selected)) = Len(selected)

\* the step is a click, or a clearing of the selection
Clicked(button) == ncalls' = ncalls + 1 /\ call'.fn = "on_click" /\ call'.button = button

Cleared == ncalls' = ncalls + 1 /\ call'.fn = "clear_selections"

(* C28: whatever is added and cleared, the selected maxima have pairwise   *)
(* distinct indices and so have the selected minima; adding a maximum      *)
(* (minimum) whose index is among the selected maxima (minima) leaves both *)
(* lists as they are, adding another appends it, and clearing empties both *)
(* lists.                                                                  *)
C28_SelectionsDistinct ==
    [][ /\ DistinctIndices(selected_maxima') /\ DistinctIndices(selected_minima')
        /\ Clicked(1) =>
              /\ selected_minima' = selected_minima
              /\ IF call'.idx \in SelectedIndices(selected_maxima)
                 THEN selected_maxima' = selected_maxima
                 ELSE /\ Len(selected_maxima') = Len(selected_maxima) + 1
                      /\ SubSeq(selected_maxima', 1, Len(selected_maxima)) = selected_maxima
                      /\ selected_maxima'[Len(selected_maxima')][1] = call'.idx
        /\ Clicked(3) =>
              /\ selected_maxima' = selected_maxima
              /\ IF call'.idx \in SelectedIndices(selected_minima)
                 THEN selected_minima' = selected_minima
                 ELSE /\ Len(selected_minima') = Len(selected_minima) + 1
                      /\ SubSeq(selected_minima', 1, Len(selected_minima)) = selected_minima
                      /\ selected_minima'[Len(selected_minima')][1] = call'.idx
        /\ Cleared => (selected_maxima' = << >> /\ selected_minima' = << >>)
      ]_vars

\* a point already selected as maximum was clicked again with the left
\* button, after another file was loaded, and both kinds hold a selection
C28_Witness ==
    /\ call.fn = "on_click"
    /\ call.button = 1
    /\ ncalls = 3
    /\ Len(selected_maxima) = 1
    /\ Len(selected_minima) = 1
    /\ selected_maxima[1][1] = call.idx
    /\ selected_maxima[1][3] # At(data, call.idx)

(* C29: whatever is loaded, clicked, cleared and run, every selected       *)
(* maximum and minimum names a position of the loaded sequence, and no     *)
(* manual run fails reading the sequence at a selection.                   *)
C29_SelectionsWithinData ==
    /\ \A i \in SelectedIndices(selected_maxima) \cup SelectedIndices(selected_minima) :
          i < Len(data)
    /\ ~(run.outcome = "error" /\ run.mode = "manual")


----------------------------------------------------------------------------
(* A claim about both lists of a detection run (specification Spec).       *)

====
